---------------------------- MODULE Spec2Model ----------------------------
(***************************************************************************)
(* Model of the aviation-weather decoders: parse_metar / format_metar      *)
(* (metar_parser.py) and parse_taf / format_taf (taf_parser.py), and of the *)
(* integration that calls them: the config entries, the update            *)
(* coordinator and the refresh service (__init__.py), and the state of the *)
(* formatted sensors (sensor.py).                                          *)
(*                                                                         *)
(* Raw reports are TLA+ strings.  Every regular expression of the source   *)
(* is translated into an operator over character offsets (0-based, as in   *)
(* Python): a matcher  XxxAt(s, p)  gives the end offset of the match that *)
(* starts at offset p, or NoMatch.  re.search takes the least offset that  *)
(* matches, re.findall / re.finditer scan left to right without overlap.   *)
(* Python dicts are functions with a string domain; None is NoneStr for a  *)
(* string-valued field and the empty tuple for a number-valued field.      *)
(***************************************************************************)
EXTENDS Integers, Sequences, FiniteSets, TLC

VARIABLES
    kind,      \* what the run is about: the decoder "metar" | "taf", or "hass"
    pc,        \* the next call of a decoder run: "parse" | "format" | "done"; "idle" in hass
    arg,       \* the value handed to the parser: [t |-> "str", s |-> ...] or a non-string
    fault,     \* block of the parser at which an internal step raises (0: none)
    pres,      \* how the parse call ended: Returned(report), or NotCalled
    report,    \* the value handed to the formatter: [t |-> "dict", d |-> ...] or a non-mapping
    opts,      \* the format call: [call |-> [eol, is_html], fault |-> failing block (0: none)]
    fres,      \* how the format call ended: Returned(text), Raised(error), or NotCalled
    hass       \* the integration inside Home Assistant: loaded entries, hass.data[DOMAIN],
               \* the refresh service, the last update, the last sensor state; NoHass in
               \* a run of the decoders alone

vars == <<kind, pc, arg, fault, pres, report, opts, fres, hass>>

-----------------------------------------------------------------------------
(* Characters and string primitives                                        *)

Digit == {"0", "1", "2", "3", "4", "5", "6", "7", "8", "9"}
Upper == {"A", "B", "C", "D", "E", "F", "G", "H", "I", "J", "K", "L", "M",
          "N", "O", "P", "Q", "R", "S", "T", "U", "V", "W", "X", "Y", "Z"}
Lower == {"a", "b", "c", "d", "e", "f", "g", "h", "i", "j", "k", "l", "m",
          "n", "o", "p", "q", "r", "s", "t", "u", "v", "w", "x", "y", "z"}
WordChar == Digit \cup Upper \cup Lower \cup {"_"}
Space == {" ", "\t", "\n", "\r"}

NoMatch == -1

Min(S) == CHOOSE x \in S : \A y \in S : x <= y
MinOf(a, b) == IF a <= b THEN a ELSE b

\* the least element, or NoMatch
Least(S) == IF S = {} THEN NoMatch ELSE Min(S)

\* s[p] in Python terms: the character after offset p ("" outside the string)
At(s, p) == IF p >= 0 /\ p < Len(s) THEN SubSeq(s, p + 1, p + 1) ELSE ""

\* s[a:b]
Slice(s, a, b) == IF a >= b THEN "" ELSE SubSeq(s, a + 1, MinOf(b, Len(s)))

\* the literal lit occurs at offset p
Lit(s, p, lit) == p >= 0 /\ p + Len(lit) <= Len(s) /\ SubSeq(s, p + 1, p + Len(lit)) = lit

\* \b at offset p
WordBoundary(s, p) == (At(s, p - 1) \in WordChar) # (At(s, p) \in WordChar)

\* \d{n} at offset p
DigitsAt(s, p, n) == \A i \in 0..(n - 1) : At(s, p + i) \in Digit

\* length of the maximal run of characters of class C starting at offset p
RECURSIVE RunLen(_, _, _)
RunLen(s, p, C) == IF At(s, p) \in C THEN 1 + RunLen(s, p + 1, C) ELSE 0

\* first literal of the tuple lits (in order, as a regex alternation) at offset p; 0 if none
AltAt(s, p, lits) ==
    LET hits == {i \in 1..Len(lits) : Lit(s, p, lits[i])}
    IN  IF hits = {} THEN 0 ELSE Min(hits)

\* substring test: lit in s
Contains(s, lit) == \E p \in 0..(Len(s) - Len(lit)) : Lit(s, p, lit)

\* s.find(lit)
IndexOf(s, lit) == Least({p \in 0..(Len(s) - Len(lit)) : Lit(s, p, lit)})

\* s.strip() for the whitespace the inputs contain
RECURSIVE LStrip(_)
LStrip(s) == IF At(s, 0) \in Space THEN LStrip(Slice(s, 1, Len(s))) ELSE s
RECURSIVE RStrip(_)
RStrip(s) == IF At(s, Len(s) - 1) \in Space THEN RStrip(Slice(s, 0, Len(s) - 1)) ELSE s
Strip(s) == LStrip(RStrip(s))

\* int() of a string of decimal digits
DigitVal(c) == CASE c = "0" -> 0 [] c = "1" -> 1 [] c = "2" -> 2 [] c = "3" -> 3
                 [] c = "4" -> 4 [] c = "5" -> 5 [] c = "6" -> 6 [] c = "7" -> 7
                 [] c = "8" -> 8 [] c = "9" -> 9
RECURSIVE ToInt(_)
ToInt(s) == IF s = "" THEN 0
            ELSE 10 * ToInt(Slice(s, 0, Len(s) - 1)) + DigitVal(At(s, Len(s) - 1))

\* int(x.replace('M', '-')) for "dd" or "Mdd"
ToSignedInt(s) == IF At(s, 0) = "M" THEN 0 - ToInt(Slice(s, 1, Len(s))) ELSE ToInt(s)

\* f"{n:02}"
Pad2(n) == IF n < 10 THEN "0" \o ToString(n) ELSE ToString(n)

-----------------------------------------------------------------------------
(* Python values                                                           *)

NoneStr == "<None>"
NoneNum == <<>>
Num(n) == <<n>>
EmptyDict == [k \in {} |-> 0]
Put(d, k, v) == [x \in (DOMAIN d) \cup {k} |-> IF x = k THEN v ELSE d[x]]
Has(d, k) == k \in DOMAIN d
\* d.get(k) used as a condition, for a key that holds True or a non-empty value when present
Truthy(d, k) == k \in DOMAIN d

-----------------------------------------------------------------------------
(* Regular expressions shared by both parsers                              *)

\* \s+ at offset p: the offset after the run of whitespace, or NoMatch
SpacesAt(s, p) == IF At(s, p) \in Space THEN p + RunLen(s, p, Space) ELSE NoMatch

\* re.search for a pattern without a captured start: the least offset where M matches
Search(s, M(_, _)) == Least({p \in 0..Len(s) : M(s, p) # NoMatch})

\* the scan step of re.findall / re.finditer: the least offset from p on where M matches
SearchFrom(s, p, M(_, _)) == Least({q \in p..(Len(s) - 1) : M(s, q) # NoMatch})

\* \bWORD\b
WordAt(s, p, w) ==
    IF WordBoundary(s, p) /\ Lit(s, p, w) /\ WordBoundary(s, p + Len(w))
    THEN p + Len(w) ELSE NoMatch

SearchWord(s, w) == Least({p \in 0..Len(s) : WordAt(s, p, w) # NoMatch})

\* round(): Python rounds a tie to the even neighbour.  num / den is the exact
\* product; for the values a 2-3 digit group can hold it is never a tie and its
\* distance to one is far above the float error, so the float result is this one.
RoundHalfEven(num, den) ==
    LET q == num \div den
        r == num % den
    IN  IF 2 * r < den THEN q
        ELSE IF 2 * r > den THEN q + 1
        ELSE IF q % 2 = 0 THEN q ELSE q + 1

\* the conversion of a speed to knots (metar_parser.py 184-189, taf_parser.py 92-97, 115-120)
SpeedToKnots(v, unit) ==
    IF unit = "MPS" THEN RoundHalfEven(v * 194384, 100000)
    ELSE IF unit = "KMH" THEN RoundHalfEven(v * 539957, 1000000)
    ELSE v

\* "round(gust * f) if gust else None" in the MPS / KMH branch; a KT gust is kept as parsed
GustToKnots(g, unit) ==
    IF unit \in {"MPS", "KMH"}
    THEN IF g # NoneNum /\ g[1] # 0 THEN Num(SpeedToKnots(g[1], unit)) ELSE NoneNum
    ELSE g

WindUnits == <<"KT", "MPS", "KMH">>

\* a regex alternation of two offsets-or-NoMatch: the first alternative that matches
OrElse(a, b) == IF a # NoMatch THEN a ELSE b

\* the same for matchers that give a record with the field end
OrElseMatch(m1, m2) == IF m1.end # NoMatch THEN m1 ELSE m2

\* \d* at offset p: the offset after the run of digits
DigitsEnd(s, p) == p + RunLen(s, p, Digit)

\* the unit and the \b after it, the speed digits being s[p:q] and the gust digits
\* s[q+1:u] when u > q
WindMatch(s, p, q, u, ui) ==
    IF (q - p) \in {2, 3} /\ (u > q => (u - q - 1) \in {2, 3}) /\ ui # 0
       /\ WordBoundary(s, u + Len(WindUnits[ui]))
    THEN [end   |-> u + Len(WindUnits[ui]),
          speed |-> ToInt(Slice(s, p, q)),
          gust  |-> IF u > q THEN Num(ToInt(Slice(s, q + 1, u))) ELSE NoneNum,
          unit  |-> WindUnits[ui]]
    ELSE [end |-> NoMatch]

\* (G(\d{2,3}))? then the unit, the speed digits ending at q
GustUnitAt(s, p, q, u) == WindMatch(s, p, q, u, AltAt(s, u, WindUnits))

\* (\d{2,3})(G(\d{2,3}))?(KT|MPS|KMH)\b at offset p, after the direction.
\* Gives [end, speed, gust, unit] or [end |-> NoMatch].  Each digit group is followed
\* by a letter, so at most one split of the digits matches.
SpeedGustAt(s, p, q) ==
    IF At(s, q) = "G" THEN GustUnitAt(s, p, q, DigitsEnd(s, q + 1)) ELSE GustUnitAt(s, p, q, q)

SpeedGustUnitAt(s, p) == SpeedGustAt(s, p, DigitsEnd(s, p))

\* \b(\d{3}|VRB)(\d{2,3})(G(\d{2,3}))?(KT|MPS|KMH)\b
WindAt(s, p) ==
    IF WordBoundary(s, p) /\ (DigitsAt(s, p, 3) \/ Lit(s, p, "VRB"))
    THEN SpeedGustUnitAt(s, p + 3).end ELSE NoMatch

\* the wind record both parsers build: the direction and the match of speed, gust, unit
WindOf(direction, m) ==
    [direction |-> direction,
     speed     |-> SpeedToKnots(m.speed, m.unit),
     gust      |-> GustToKnots(m.gust, m.unit)]

WindRecord(s, p) == WindOf(Slice(s, p, p + 3), SpeedGustUnitAt(s, p + 3))

\* SM\b at offset e
SmEnd(s, e) == IF Lit(s, e, "SM") /\ WordBoundary(s, e + 2) THEN e + 2 ELSE NoMatch

\* \d+SM\b at offset a
DigitsSmEnd(s, a) == IF At(s, a) \in Digit THEN SmEnd(s, DigitsEnd(s, a)) ELSE NoMatch

\* /\d+SM\b at offset b
DenominatorSmEnd(s, b) == IF At(s, b) = "/" THEN DigitsSmEnd(s, b + 1) ELSE NoMatch

\* \d+/\d+SM\b at offset a
FractionSmEnd(s, a) ==
    IF At(s, a) \in Digit THEN DenominatorSmEnd(s, DigitsEnd(s, a)) ELSE NoMatch

\* the three ways on after the leading digits, which end at a, in the engine's order:
\* "d d/dSM", "d/dSM", "dSM"
SmAfterDigits(s, a) ==
    OrElse(IF At(s, a) = " " THEN FractionSmEnd(s, a + 1) ELSE NoMatch,
           OrElse(DenominatorSmEnd(s, a), SmEnd(s, a)))

\* a statute-mile visibility that would know whole miles only
WholeMilesAt(s, p) == DigitsSmEnd(s, p)

\* ((\d+ )?\d+/\d+|(\d+))SM\b at offset p: end offset or NoMatch
StatuteMilesAt(s, p) ==
    IF At(s, p) \in Digit THEN SmAfterDigits(s, DigitsEnd(s, p)) ELSE NoMatch

WeatherIntensity == <<"-", "+", "VC">>
WeatherDescriptor == <<"MI", "BC", "DR", "BL", "SH", "TS", "FZ">>
WeatherPhenomenon == <<"DZ", "RA", "SN", "SG", "IC", "PL", "GR", "GS", "UP", "BR", "FG",
                       "FU", "VA", "DU", "SA", "HZ", "PY", "SQ", "FC", "SS", "DS">>

\* the match after the intensity int: descriptor d (0: none at q), phenomenon ph1 after
\* the descriptor or ph0 in its place; the descriptor is tried present before absent
WeatherPick(s, q, int, bounded, d, ph1, ph0) ==
    IF d # 0 /\ ph1 # 0 /\ (bounded => WordBoundary(s, q + 4))
    THEN [end |-> q + 4, intensity |-> int, descriptor |-> WeatherDescriptor[d],
          phenomenon |-> WeatherPhenomenon[ph1]]
    ELSE IF ph0 # 0 /\ (bounded => WordBoundary(s, q + 2))
    THEN [end |-> q + 2, intensity |-> int, descriptor |-> NoneStr,
          phenomenon |-> WeatherPhenomenon[ph0]]
    ELSE [end |-> NoMatch]

\* (MI|BC|DR|BL|SH|TS|FZ)?(DZ|RA|...|DS) at offset q, then \b when bounded
WeatherBodyAt(s, q, int, bounded) ==
    WeatherPick(s, q, int, bounded, AltAt(s, q, WeatherDescriptor),
                AltAt(s, q + 2, WeatherPhenomenon), AltAt(s, q, WeatherPhenomenon))

\* the intensity i (0: none at p) is tried present before absent
WeatherWithIntensity(s, p, i, bounded) ==
    IF i = 0 THEN WeatherBodyAt(s, p, NoneStr, bounded)
    ELSE OrElseMatch(WeatherBodyAt(s, p + Len(WeatherIntensity[i]), WeatherIntensity[i], bounded),
                     WeatherBodyAt(s, p, NoneStr, bounded))

\* (-|\+|VC)?(MI|BC|DR|BL|SH|TS|FZ)?(DZ|RA|...|DS) at offset p, then \b when bounded.
\* Gives [end, intensity, descriptor, phenomenon] or [end |-> NoMatch].
WeatherAt(s, p, bounded) == WeatherWithIntensity(s, p, AltAt(s, p, WeatherIntensity), bounded)

WeatherEntry(m) ==
    [intensity |-> m.intensity, descriptor |-> m.descriptor, phenomenon |-> m.phenomenon]

\* re.findall of the weather pattern: left to right, matches do not overlap
RECURSIVE FindWeather(_, _, _)
WeatherFrom(s, m, bounded) ==
    IF m.end = NoMatch THEN <<>> ELSE <<WeatherEntry(m)>> \o FindWeather(s, m.end, bounded)

FindWeather(s, p, bounded) ==
    WeatherFrom(s, WeatherAt(s, SearchFrom(s, p, LAMBDA a, b : WeatherAt(a, b, bounded).end),
                             bounded), bounded)

-----------------------------------------------------------------------------
(* parse_metar (metar_parser.py 80-399)                                    *)

\* ^(METAR|SPECI)\s : the length of group(0), 0 without a match
ReportTypeLen(s) ==
    IF (Lit(s, 0, "METAR") \/ Lit(s, 0, "SPECI")) /\ At(s, 5) \in Space THEN 6 ELSE 0

\* (\d{2})(\d{2})(\d{2})Z
ObsTimeAt(s, p) == IF DigitsAt(s, p, 6) /\ At(s, p + 6) = "Z" THEN p + 7 ELSE NoMatch

Modifiers == <<"AUTO", "COR", "CCA", "CCB", "CCC", "CCD", "CCE", "CCF">>

\* \d{6}Z\s+(AUTO|COR|CCA|CCB|CCC|CCD|CCE|CCF)\s+ : the offset of group(1), or NoMatch
ModifierAt(s, p) ==
    LET a == IF ObsTimeAt(s, p) = NoMatch THEN NoMatch ELSE SpacesAt(s, p + 7)
        i == IF a = NoMatch THEN 0 ELSE AltAt(s, a, Modifiers)
    IN  IF i # 0 /\ At(s, a + Len(Modifiers[i])) \in Space THEN a ELSE NoMatch

\* get_ordinal (metar_parser.py 51-77)
get_ordinal(i) ==
    IF 10 <= i % 100 /\ i % 100 <= 20 THEN "th"
    ELSE CASE i % 10 = 1 -> "st" [] i % 10 = 2 -> "nd" [] i % 10 = 3 -> "rd" [] OTHER -> "th"

\* (\d{3})V(\d{3})
VariationAt(s, p) ==
    IF DigitsAt(s, p, 3) /\ At(s, p + 3) = "V" /\ DigitsAt(s, p + 4, 3) THEN p + 7 ELSE NoMatch

\* \b(\d{4}|((\d+ )?\d+/\d+|(\d+))SM)\b : the alternatives in the engine's order
MetarVisibilityAt(s, p) ==
    IF ~WordBoundary(s, p) THEN NoMatch
    ELSE IF DigitsAt(s, p, 4) /\ WordBoundary(s, p + 4) THEN p + 4
    ELSE StatuteMilesAt(s, p)

TrendKeywords == <<"NOSIG", "TEMPO", "BECMG", "RMK">>

\* trend_start (metar_parser.py 221-225): the earliest \bKEYWORD\b, else len(metar)
TrendStart(s) ==
    LET hits == {SearchWord(s, TrendKeywords[i]) : i \in 1..Len(TrendKeywords)} \ {NoMatch}
    IN  IF hits = {} THEN Len(s) ELSE Min(hits)

\* metar_body after line 228
MetarBody(s) == Slice(s, 0, TrendStart(s))

\* \b(SKC|CLR)\b
SkyClearAt(s, p) ==
    IF WordAt(s, p, "SKC") # NoMatch \/ WordAt(s, p, "CLR") # NoMatch THEN p + 3 ELSE NoMatch

\* \b\d{4}\b|CAVOK|P6SM|\d+SM  (the visibility the weather section starts after)
WeatherVisAt(s, p) ==
    LET n == RunLen(s, p, Digit)
    IN  IF WordBoundary(s, p) /\ DigitsAt(s, p, 4) /\ WordBoundary(s, p + 4) THEN p + 4
        ELSE IF Lit(s, p, "CAVOK") THEN p + 5
        ELSE IF Lit(s, p, "P6SM") THEN p + 4
        ELSE IF n > 0 /\ Lit(s, p + n, "SM") THEN p + n + 2
        ELSE NoMatch

\* \b\d{3}(\d{2,3})(G\d{2,3})?(KT|MPS|KMH)\b  (the wind the weather section starts after)
WeatherWindAt(s, p) ==
    IF WordBoundary(s, p) /\ DigitsAt(s, p, 3) THEN SpeedGustUnitAt(s, p + 3).end ELSE NoMatch

\* \bM?\d{2}/M?\d{2}\b
WeatherTempAt(s, p) ==
    LET a == IF At(s, p) = "M" THEN p + 1 ELSE p
        b == IF At(s, a + 3) = "M" THEN a + 4 ELSE a + 3
    IN  IF WordBoundary(s, p) /\ DigitsAt(s, a, 2) /\ At(s, a + 2) = "/"
           /\ DigitsAt(s, b, 2) /\ WordBoundary(s, b + 2)
        THEN b + 2 ELSE NoMatch

WeatherStopClouds == <<"FEW", "SCT", "BKN", "OVC", "NSC", "SKC">>

\* \b(FEW|SCT|BKN|OVC|NSC|SKC)\b
WeatherCloudAt(s, p) ==
    IF \E i \in 1..Len(WeatherStopClouds) : WordAt(s, p, WeatherStopClouds[i]) # NoMatch
    THEN p + 3 ELSE NoMatch

\* where the weather section starts: after the visibility, else after the wind when the
\* report has one, else at 0 (metar_parser.py 239-249)
WeatherSectionStart(visEnd, windEnd) == IF visEnd # NoMatch THEN visEnd ELSE IF windEnd # NoMatch THEN windEnd ELSE 0

\* where it ends: at the temperature group or the first cloud layer after the start,
\* whichever comes first; t and c are offsets in body[start:] (metar_parser.py 251-259)
WeatherSectionEnd(body, start, t, c) ==
    IF c = NoMatch THEN (IF t # NoMatch THEN start + t ELSE Len(body))
    ELSE MinOf(IF t # NoMatch THEN start + t ELSE Len(body), start + c)

\* re.search(M, s).end(), or NoMatch
SearchEnd(s, M(_, _)) == M(s, Search(s, M))

WeatherSectionFrom(body, start, rest) ==
    Slice(body, start,
          WeatherSectionEnd(body, start, Search(rest, WeatherTempAt), Search(rest, WeatherCloudAt)))

WeatherSectionAfter(body, start) == WeatherSectionFrom(body, start, Slice(body, start, Len(body)))

\* weather_section (metar_parser.py 239-261)
WeatherSection(body, hasWind) ==
    WeatherSectionAfter(body,
        WeatherSectionStart(SearchEnd(body, WeatherVisAt),
                            IF hasWind THEN SearchEnd(body, WeatherWindAt) ELSE NoMatch))

MetarCloudTypes == <<"FEW", "SCT", "BKN", "OVC", "VV", "NSC">>

\* (\d{3}|///)? then \b after a cloud type that ends at offset q: the end offset with
\* the height when that leaves a word boundary, else without it, else NoMatch
CloudHeightEnd(s, q) ==
    IF (DigitsAt(s, q, 3) \/ Lit(s, q, "///")) /\ WordBoundary(s, q + 3) THEN q + 3
    ELSE IF WordBoundary(s, q) THEN q
    ELSE NoMatch

\* int(height) unless the group is empty or '///'
CloudHeight(txt) == IF txt = "" \/ txt = "///" THEN NoneNum ELSE Num(ToInt(txt))

\* the layer of this type, the type ending at q and the match at e
MetarCloudMatch(s, type, q, e) ==
    IF e = NoMatch THEN [end |-> NoMatch]
    ELSE [end |-> e, type |-> type, height |-> CloudHeight(Slice(s, q, e))]

MetarCloudOfType(s, q, type) == MetarCloudMatch(s, type, q, CloudHeightEnd(s, q))

MetarCloudWith(s, p, i) ==
    IF i = 0 THEN [end |-> NoMatch]
    ELSE MetarCloudOfType(s, p + Len(MetarCloudTypes[i]), MetarCloudTypes[i])

\* \b(FEW|SCT|BKN|OVC|VV|NSC)(\d{3}|///)?\b : [end, type, height] or [end |-> NoMatch]
MetarCloudAt(s, p) ==
    IF WordBoundary(s, p) THEN MetarCloudWith(s, p, AltAt(s, p, MetarCloudTypes))
    ELSE [end |-> NoMatch]

RECURSIVE FindMetarClouds(_, _)
MetarCloudsFrom(s, m) ==
    IF m.end = NoMatch THEN <<>>
    ELSE <<[type |-> m.type, height |-> m.height]>> \o FindMetarClouds(s, m.end)

FindMetarClouds(s, p) ==
    MetarCloudsFrom(s, MetarCloudAt(s, SearchFrom(s, p, LAMBDA a, b : MetarCloudAt(a, b).end)))

\* the two groups, the first ending at a + 2 and the second starting at b
TempDewMatch(s, p, a, b) ==
    IF DigitsAt(s, a, 2) /\ At(s, a + 2) = "/" /\ DigitsAt(s, b, 2)
    THEN [end |-> b + 2, temp |-> Slice(s, p, a + 2), dewp |-> Slice(s, a + 3, b + 2)]
    ELSE [end |-> NoMatch]

TempDewAfterSign(s, p, a) == TempDewMatch(s, p, a, IF At(s, a + 3) = "M" THEN a + 4 ELSE a + 3)

\* (\d{2}|M\d{2})/(\d{2}|M\d{2}) : [end, temp, dewp] or [end |-> NoMatch]
TempDewAt(s, p) == TempDewAfterSign(s, p, IF At(s, p) = "M" THEN p + 1 ELSE p)

TempDewEnd(s, p) == TempDewAt(s, p).end

\* \b(Q\d{4}|A\d{4})\b
AltimeterAt(s, p) ==
    IF WordBoundary(s, p) /\ At(s, p) \in {"Q", "A"} /\ DigitsAt(s, p + 1, 4)
       /\ WordBoundary(s, p + 5)
    THEN p + 5 ELSE NoMatch

RvrTendency == {"N", "D", "U"}

\* the match, "/" at a, the range digits from b, the end at e
RvrMatch(s, p, a, b, e) ==
    IF WordBoundary(s, p) /\ At(s, p) = "R" /\ DigitsAt(s, p + 1, 2) /\ At(s, a) = "/"
       /\ DigitsAt(s, b, 4) /\ WordBoundary(s, e)
    THEN [end |-> e,
          runway |-> "R" \o Slice(s, p + 1, a),
          range |-> ToInt(Slice(s, b, b + 4)),
          tendency |-> IF e = b + 5 THEN At(s, b + 4) ELSE NoneStr]
    ELSE [end |-> NoMatch]

RvrRangeAt(s, p, a, b) == RvrMatch(s, p, a, b, IF At(s, b + 4) \in RvrTendency THEN b + 5 ELSE b + 4)

RvrSlashAt(s, p, a) == RvrRangeAt(s, p, a, IF At(s, a + 1) = "P" THEN a + 2 ELSE a + 1)

\* \bR(\d{2})([LCR]?)/P?(\d{4})([NDU]?)\b : [end, runway, range, tendency] or [end |-> NoMatch]
RvrAt(s, p) == RvrSlashAt(s, p, IF At(s, p + 3) \in {"L", "C", "R"} THEN p + 4 ELSE p + 3)

RECURSIVE FindRvr(_, _)
RvrFrom(s, m) ==
    IF m.end = NoMatch THEN <<>>
    ELSE <<[runway |-> m.runway, range |-> m.range, tendency |-> m.tendency]>>
         \o FindRvr(s, m.end)

FindRvr(s, p) == RvrFrom(s, RvrAt(s, SearchFrom(s, p, LAMBDA a, b : RvrAt(a, b).end)))

\* $ : the end of the string, or just before a final newline
AtEnd(s, e) == e = Len(s) \/ (e = Len(s) - 1 /\ At(s, e) = "\n")

\* \s+RMK at offset e
SpacesThenRmk(s, a) == a # NoMatch /\ Lit(s, a, "RMK")

\* (?=\s+RMK|=|$)
TrendLookahead(s, e) ==
    \/ SpacesThenRmk(s, SpacesAt(s, e))
    \/ At(s, e) = "="
    \/ AtEnd(s, e)

TrendTypes == <<"NOSIG", "TEMPO", "BECMG">>

\* the match with the optional group (\s+[^=]*?), which ends at e
TrendWithDetails(s, k, type, e) == [end |-> e, type |-> type, details |-> Strip(Slice(s, k, e))]

\* the keyword ends at k; a is the end of the whitespace after it, or NoMatch.  With the
\* optional group, the lazy [^=]*? grows from the end of the whitespace until the
\* lookahead holds, which it does at the first "=" or at the end at the latest.
TrendAfterKeyword(s, k, type, a) ==
    IF a # NoMatch
    THEN TrendWithDetails(s, k, type, Min({x \in a..Len(s) : TrendLookahead(s, x)}))
    ELSE IF TrendLookahead(s, k)
    THEN [end |-> k, type |-> type, details |-> NoneStr]
    ELSE [end |-> NoMatch]

TrendWith(s, p, i) ==
    IF i = 0 THEN [end |-> NoMatch]
    ELSE TrendAfterKeyword(s, p + 5, TrendTypes[i], SpacesAt(s, p + 5))

\* \b(NOSIG|TEMPO|BECMG)(\s+[^=]*?)?(?=\s+RMK|=|$) : [end, type, details] or [end |-> NoMatch]
TrendAt(s, p) ==
    IF WordBoundary(s, p) THEN TrendWith(s, p, AltAt(s, p, TrendTypes)) ELSE [end |-> NoMatch]

TrendEnd(s, p) == TrendAt(s, p).end

\* the offset of the first newline from p on, or the length of s
LineEnd(s, nl) == IF nl = {} THEN Len(s) ELSE Min(nl)

\* \bRMK\b(.*) : group(1), which stops at a newline
RemarksText(s, p) ==
    Slice(s, p + 3, LineEnd(s, {x \in (p + 3)..(Len(s) - 1) : At(s, x) = "\n"}))

\* \b(AO[12])\b
AutoStationAt(s, p) ==
    IF WordAt(s, p, "AO1") # NoMatch \/ WordAt(s, p, "AO2") # NoMatch THEN p + 3 ELSE NoMatch

\* the match, the letter run being n long
WeatherTimeMatch(s, p, n) ==
    IF WordBoundary(s, p) /\ n >= 3 /\ At(s, p + n - 1) \in {"B", "E"}
       /\ DigitsAt(s, p + n, 2) /\ WordBoundary(s, p + n + 2)
    THEN [end |-> p + n + 2, type |-> Slice(s, p, p + n - 1), action |-> At(s, p + n - 1),
          minute |-> ToInt(Slice(s, p + n, p + n + 2))]
    ELSE [end |-> NoMatch]

\* \b([A-Z]{2,})(B|E)(\d{2})\b : the greedy letter run gives back its last letter to (B|E)
WeatherTimeAt(s, p) == WeatherTimeMatch(s, p, RunLen(s, p, Upper))

RECURSIVE FindWeatherTimes(_, _)
WeatherTimesAfter(s, m) ==
    IF m.end = NoMatch THEN <<>> ELSE <<m>> \o FindWeatherTimes(s, m.end)

FindWeatherTimes(s, p) ==
    WeatherTimesAfter(s, WeatherTimeAt(s, SearchFrom(s, p, LAMBDA a, b : WeatherTimeAt(a, b).end)))

\* weather_began[weather_type] = time_min on a dict that iterates in insertion order: the
\* dict is the tuple of its items; a key seen again keeps its place and takes the new value
SetItem(items, t, m) ==
    IF \E i \in 1..Len(items) : items[i].type = t
    THEN [i \in 1..Len(items) |->
             IF items[i].type = t THEN [type |-> t, minute |-> m] ELSE items[i]]
    ELSE Append(items, [type |-> t, minute |-> m])

\* the loop over weather_time_matches (metar_parser.py 356-363) from match i on
RECURSIVE WeatherTimesFrom(_, _, _, _)
WeatherTimesFrom(ms, i, action, items) ==
    IF i > Len(ms) THEN items
    ELSE WeatherTimesFrom(ms, i + 1, action,
            IF ms[i].action = action THEN SetItem(items, ms[i].type, ms[i].minute) ELSE items)

\* the weather_began ("B") / weather_ended ("E") dict
WeatherTimes(ms, action) == WeatherTimesFrom(ms, 1, action, <<>>)

\* SLP(\d{3})
SlpAt(s, p) == IF Lit(s, p, "SLP") /\ DigitsAt(s, p + 3, 3) THEN p + 6 ELSE NoMatch

\* a decoding whose first branch would take the value 700 as well
SeaLevelPressureUpTo700(v) == 1000 + (IF v <= 700 THEN v ELSE v - 1000)

\* sea_level_pressure (metar_parser.py 374)
SeaLevelPressure(v) == 1000 + (IF v < 700 THEN v ELSE v - 1000)

MilitaryCodes == <<"BLU", "WHT", "GRN", "YLO1", "YLO2", "AMB", "RED">>

\* (BLU|WHT|GRN|YLO1|YLO2|AMB|RED) at offset p
MilitaryAt(s, p) ==
    IF AltAt(s, p, MilitaryCodes) # 0 THEN p + Len(MilitaryCodes[AltAt(s, p, MilitaryCodes)])
    ELSE NoMatch

\* re.findall(r"(BLU|WHT|GRN|YLO1|YLO2|AMB|RED)", remarks)
RECURSIVE FindMilitary(_, _)
MilitaryFrom(s, q, e) ==
    IF q = NoMatch THEN <<>> ELSE <<Slice(s, q, e)>> \o FindMilitary(s, e)

MilitaryAfter(s, q) == MilitaryFrom(s, q, MilitaryAt(s, q))

FindMilitary(s, p) == MilitaryAfter(s, SearchFrom(s, p, MilitaryAt))

SensorCodes == <<"RVRNO", "PWINO", "PNO", "FZRANO", "TSNO", "VISNO_LOC", "CHINO_LOC">>

\* [sensor for sensor in sensor_codes if sensor in remarks]
RECURSIVE SensorFailures(_, _)
SensorFailures(r, i) ==
    IF i > Len(SensorCodes) THEN <<>>
    ELSE (IF Contains(r, SensorCodes[i]) THEN <<SensorCodes[i]>> ELSE <<>>)
         \o SensorFailures(r, i + 1)

\* The blocks of parse_metar's try body, in source order.  Each block starts with the
\* call that can fail (a regex search, a conversion) and then writes its fields.
MetarBlocks == <<"report_type", "station_id", "observation_time", "report_modifier",
                 "cavok", "wind", "variation", "visibility", "trend_start", "sky_clear",
                 "weather", "clouds", "temperature", "altimeter", "runway_visual_range",
                 "trend", "remarks", "automated_station", "weather_times",
                 "sea_level_pressure", "military_weather_codes", "military_tempo",
                 "maintenance_required", "sensor_failures">>

\* the blocks nested in "if remarks_match:" (metar_parser.py 342-394)
RemarksBlocks == {"automated_station", "weather_times", "sea_level_pressure",
                  "military_weather_codes", "military_tempo", "maintenance_required",
                  "sensor_failures"}

\* whether parse_metar reaches block b for this text and this report so far
MetarBlockRuns(b, s, d) == b \in RemarksBlocks => Has(d, "remarks")

\* the default report type when no METAR/SPECI token leads the text (metar_parser.py 140)
DefaultReportType == "METAR"

\* a report type block without the default: the field only when the token leads the text
ReportTypeWhenLeading(s, d) ==
    IF ReportTypeLen(s) # 0 THEN Put(d, "report_type", Slice(s, 0, 5)) ELSE d

\* Report type (metar_parser.py 135-141)
ReportTypeBlock(s, d) ==
    Put(d, "report_type", IF ReportTypeLen(s) # 0 THEN Slice(s, 0, 5) ELSE DefaultReportType)

\* CAVOK (metar_parser.py 166-169)
CavokBlock(s, d) ==
    IF SearchWord(s, "CAVOK") # NoMatch
    THEN Put(Put(d, "cavok", TRUE), "visibility", "CAVOK") ELSE d

\* blocks that would run whatever the report holds
NeverSuppresses(d) == FALSE

\* "if not parsed.get('cavok')" before visibility and weather (metar_parser.py 210, 237)
CavokSuppresses(d) == Truthy(d, "cavok")

\* a cloud block that would test cavok alone
OnlyCavokSuppresses(d) == Truthy(d, "cavok")

\* "if not parsed.get('cavok') and not parsed.get('sky_clear')" (metar_parser.py 278)
CloudsSuppressed(d) == Truthy(d, "cavok") \/ Truthy(d, "sky_clear")

\* one block of parse_metar: the report after it, from the report d before it.
\* The operators below are the bodies of the blocks, each given what its search found.

\* metar_parser.py 144-147; body is the text after the report type
StationFields(d, body) ==
    IF \A i \in 0..3 : At(body, i) \in Upper THEN Put(d, "station_id", Slice(body, 0, 4)) ELSE d

\* metar_parser.py 155-160
ObservationDayFields(d, day) ==
    Put(Put(d, "observation_day", Pad2(day)),
        "observation_day_ordinal", ToString(day) \o get_ordinal(day))

ObservationHmFields(d, hm) ==
    Put(Put(d, "observation_time_hm", hm \o "Z"), "observation_time_iso8601", "T" \o hm \o ":00Z")

\* metar_parser.py 150-160; p is where the time group was found
ObservationFields(d, s, p) ==
    IF p = NoMatch THEN d
    ELSE ObservationHmFields(
             ObservationDayFields(Put(d, "observation_time", Slice(s, p, p + 7)),
                                  ToInt(Slice(s, p, p + 2))),
             Pad2(ToInt(Slice(s, p + 2, p + 4))) \o ":" \o Pad2(ToInt(Slice(s, p + 4, p + 6))))

\* metar_parser.py 163-165; a is the offset of the modifier
ModifierFields(d, s, a) ==
    IF a = NoMatch THEN d ELSE Put(d, "report_modifier", Modifiers[AltAt(s, a, Modifiers)])

\* metar_parser.py 172-195; w is the wind record and speed the speed as written
WindFields(d, w, speed) ==
    Put(IF w.direction = "000" /\ speed = 0 THEN Put(d, "wind_calm", TRUE) ELSE d, "wind", w)

WindBlock(d, s, p) ==
    IF p = NoMatch THEN d ELSE WindFields(d, WindRecord(s, p), SpeedGustUnitAt(s, p + 3).speed)

\* a variation that would replace the wind instead of joining it
VariationAlone(d, s, p) ==
    IF p = NoMatch THEN d
    ELSE Put(d, "wind", [variation |-> [from |-> ToInt(Slice(s, p, p + 3)),
                                        to |-> ToInt(Slice(s, p + 4, p + 7))]])

\* a variation that would join a wind only, and be dropped when there is none
VariationWhenWind(d, s, p) ==
    IF p = NoMatch \/ ~Has(d, "wind") THEN d
    ELSE Put(d, "wind",
             Put(d["wind"], "variation",
                 [from |-> ToInt(Slice(s, p, p + 3)), to |-> ToInt(Slice(s, p + 4, p + 7))]))

\* metar_parser.py 198-207
VariationFields(d, s, p) ==
    IF p = NoMatch THEN d
    ELSE Put(d, "wind",
             Put(IF Has(d, "wind") THEN d["wind"] ELSE EmptyDict, "variation",
                 [from |-> ToInt(Slice(s, p, p + 3)), to |-> ToInt(Slice(s, p + 4, p + 7))]))

\* metar_parser.py 213-217; v is the visibility as written
VisibilityText(v) ==
    IF Contains(v, "SM") THEN v \o " (statute miles)" ELSE v \o " meters"

VisibilityFields(d, s, p) ==
    IF p = NoMatch THEN d
    ELSE Put(d, "visibility", VisibilityText(Slice(s, p, MetarVisibilityAt(s, p))))

\* metar_parser.py 231-234
SkyClearFields(d, body, p) ==
    IF p = NoMatch THEN d
    ELSE Put(Put(d, "sky_clear", TRUE), "sky_clear_type", Slice(body, p, p + 3))

\* "if xs: parsed[k] = xs"
PutNonEmpty(d, k, xs) == IF xs = <<>> THEN d ELSE Put(d, k, xs)

\* metar_parser.py 294-303
TemperatureFields(d, m) ==
    IF m.end = NoMatch THEN d
    ELSE Put(Put(d, "temperature", ToSignedInt(m.temp)), "dewpoint", ToSignedInt(m.dewp))

\* metar_parser.py 306-316; float("nn.nn") is kept as the number of hundredths
AltimeterFields(d, s, p) ==
    IF p = NoMatch THEN d
    ELSE Put(d, "altimeter", [unit |-> IF At(s, p) = "Q" THEN "hPa" ELSE "inHg",
                              value |-> ToInt(Slice(s, p + 1, p + 5))])

\* metar_parser.py 329-338
TrendFields(d, m) ==
    IF m.end = NoMatch THEN d ELSE Put(d, "trend", [type |-> m.type, details |-> m.details])

\* metar_parser.py 341-344, taf_parser.py 293-296
RemarksFields(d, s, p) ==
    IF p = NoMatch THEN d ELSE Put(d, "remarks", Strip(RemarksText(s, p)))

\* metar_parser.py 347-349
AutoStationFields(d, r, p) ==
    IF p = NoMatch THEN d ELSE Put(d, "automated_station", Slice(r, p, p + 3))

\* metar_parser.py 365-368
WeatherTimeFields(d, began, ended) ==
    PutNonEmpty(PutNonEmpty(d, "weather_began", began), "weather_ended", ended)

WeatherTimesBlock(d, ms) == WeatherTimeFields(d, WeatherTimes(ms, "B"), WeatherTimes(ms, "E"))

\* metar_parser.py 370-376
SlpFields(d, r, p) ==
    IF p = NoMatch THEN d
    ELSE Put(d, "sea_level_pressure", SeaLevelPressure(ToInt(Slice(r, p + 3, p + 6))))

MetarBlock(b, s, d) ==
    CASE b = "report_type" -> ReportTypeBlock(s, d)
      [] b = "station_id" -> StationFields(d, Slice(s, ReportTypeLen(s), Len(s)))
      [] b = "observation_time" -> ObservationFields(d, s, Search(s, ObsTimeAt))
      [] b = "report_modifier" -> ModifierFields(d, s, SearchEnd(s, ModifierAt))
      [] b = "cavok" -> CavokBlock(s, d)
      [] b = "wind" -> WindBlock(d, s, Search(s, WindAt))
      [] b = "variation" -> VariationFields(d, s, Search(s, VariationAt))
      [] b = "visibility" ->
           IF CavokSuppresses(d) THEN d ELSE VisibilityFields(d, s, Search(s, MetarVisibilityAt))
      [] b = "trend_start" -> d
      [] b = "sky_clear" -> SkyClearFields(d, MetarBody(s), Search(MetarBody(s), SkyClearAt))
      [] b = "weather" ->
           IF CavokSuppresses(d) THEN d
           ELSE PutNonEmpty(d, "weather",
                    FindWeather(WeatherSection(MetarBody(s), Has(d, "wind")), 0, FALSE))
      [] b = "clouds" ->
           IF CloudsSuppressed(d) THEN d
           ELSE PutNonEmpty(d, "clouds", FindMetarClouds(MetarBody(s), 0))
      [] b = "temperature" -> TemperatureFields(d, TempDewAt(s, Search(s, TempDewEnd)))
      [] b = "altimeter" -> AltimeterFields(d, s, Search(s, AltimeterAt))
      [] b = "runway_visual_range" -> PutNonEmpty(d, "runway_visual_range", FindRvr(s, 0))
      [] b = "trend" -> TrendFields(d, TrendAt(s, Search(s, TrendEnd)))
      [] b = "remarks" -> RemarksFields(d, s, SearchWord(s, "RMK"))
      [] b = "automated_station" ->
           AutoStationFields(d, d["remarks"], Search(d["remarks"], AutoStationAt))
      [] b = "weather_times" -> WeatherTimesBlock(d, FindWeatherTimes(d["remarks"], 0))
      [] b = "sea_level_pressure" -> SlpFields(d, d["remarks"], Search(d["remarks"], SlpAt))
      [] b = "military_weather_codes" ->
           PutNonEmpty(d, "military_weather_codes", FindMilitary(d["remarks"], 0))
      [] b = "military_tempo" ->
           IF SearchWord(d["remarks"], "TEMPO") # NoMatch
           THEN Put(d, "military_weather_codes_tempo", TRUE) ELSE d
      [] b = "maintenance_required" ->
           Put(d, "maintenance_required", Contains(d["remarks"], "$"))
      [] b = "sensor_failures" ->
           PutNonEmpty(d, "sensor_failures", SensorFailures(d["remarks"], 1))

\* the two ways a call ends
Returned(v) == [kind |-> "returned", value |-> v]
Raised(e) == [kind |-> "raised", error |-> e]

\* str(e) of the exception the handler catches
ParseErrorText == "internal error"

\* a handler that would return the note alone, without the fields extracted so far
ParseErrorOnly(d) == Returned(Put(EmptyDict, "parse_error", ParseErrorText))

\* the handler of the parsers' try (metar_parser.py 396-399, taf_parser.py 363-366):
\* the note is written into the report built so far, and that report is returned
ParseErrorHandler(d) == Returned(Put(d, "parse_error", ParseErrorText))

\* the try body of parse_metar from block k on, with the block f failing (0: none):
\* whether it raised, and the report at that point
RECURSIVE MetarBlocksFrom(_, _, _, _)
MetarBlocksFrom(k, f, s, d) ==
    IF k > Len(MetarBlocks) THEN [failed |-> FALSE, d |-> d]
    ELSE IF ~MetarBlockRuns(MetarBlocks[k], s, d) THEN MetarBlocksFrom(k + 1, f, s, d)
    ELSE IF k = f THEN [failed |-> TRUE, d |-> d]
    ELSE MetarBlocksFrom(k + 1, f, s, MetarBlock(MetarBlocks[k], s, d))

\* a guard that would test the type alone: "if not isinstance(metar, str)"
IsStr(a) == a.t = "str"

\* "if not metar or not isinstance(metar, str)" (metar_parser.py 130, taf_parser.py 223)
IsNonEmptyStr(a) == a.t = "str" /\ a.s # ""

\* how the try ends: by the handler when it raised, else by "return parsed"
EndOfTry(try) == IF try.failed THEN ParseErrorHandler(try.d) ELSE Returned(try.d)

\* parse_metar(a) with the block f failing: how the call ends
parse_metar(a, f) ==
    IF ~IsNonEmptyStr(a) THEN Returned(EmptyDict)
    ELSE EndOfTry(MetarBlocksFrom(1, f, a.s, EmptyDict))

-----------------------------------------------------------------------------
(* _parse_forecast_group (taf_parser.py 56-188)                            *)

\* (\d{4})/(\d{4})
PeriodAt(s, p) ==
    IF DigitsAt(s, p, 4) /\ At(s, p + 4) = "/" /\ DigitsAt(s, p + 5, 4) THEN p + 9 ELSE NoMatch

\* FM(\d{6})
FmAt(s, p) == IF Lit(s, p, "FM") /\ DigitsAt(s, p + 2, 6) THEN p + 8 ELSE NoMatch

\* \bWS(\d{3})/(\d{3})(\d{2,3})(G(\d{2,3}))?(KT|MPS|KMH)\b
WindShearAt(s, p) ==
    IF WordBoundary(s, p) /\ Lit(s, p, "WS") /\ DigitsAt(s, p + 2, 3) /\ At(s, p + 5) = "/"
       /\ DigitsAt(s, p + 6, 3)
    THEN SpeedGustUnitAt(s, p + 9).end ELSE NoMatch

\* the wind shear record: the height in hundreds of feet, the direction, and the match
\* of speed, gust and unit
WindShearOf(height, direction, m) ==
    [height    |-> height * 100,
     direction |-> direction,
     speed     |-> SpeedToKnots(m.speed, m.unit),
     gust      |-> GustToKnots(m.gust, m.unit)]

WindShearRecord(s, p) ==
    WindShearOf(ToInt(Slice(s, p + 2, p + 5)), Slice(s, p + 6, p + 9), SpeedGustUnitAt(s, p + 9))

\* \b(CAVOK|P6SM|(?<!/)\d{4}(?!/)|((\d+ )?\d+/\d+|(\d+))SM)\b
TafVisibilityAt(s, p) ==
    IF ~WordBoundary(s, p) THEN NoMatch
    ELSE IF Lit(s, p, "CAVOK") /\ WordBoundary(s, p + 5) THEN p + 5
    ELSE IF Lit(s, p, "P6SM") /\ WordBoundary(s, p + 4) THEN p + 4
    ELSE IF At(s, p - 1) # "/" /\ DigitsAt(s, p, 4) /\ At(s, p + 4) # "/"
            /\ WordBoundary(s, p + 4) THEN p + 4
    ELSE StatuteMilesAt(s, p)

TafCloudTypes == <<"FEW", "SCT", "BKN", "OVC", "VV", "NSC", "SKC">>
Convective == <<"CB", "TCU">>

\* (CB|TCU)?\b at offset x, c being the suffix found at x (0: none): the suffix is
\* tried present before absent
ConvectiveSuffixEnd(s, x, c) ==
    IF c # 0 /\ WordBoundary(s, x + Len(Convective[c])) THEN x + Len(Convective[c])
    ELSE IF WordBoundary(s, x) THEN x
    ELSE NoMatch

ConvectiveEnd(s, x) == ConvectiveSuffixEnd(s, x, AltAt(s, x, Convective))

\* the layer: the type ends at q, the height at x, the match at e
TafCloudMatch(s, type, q, x, e) ==
    IF e = NoMatch THEN [end |-> NoMatch]
    ELSE [end |-> e, type |-> type, height |-> CloudHeight(Slice(s, q, x)),
          convective |-> Slice(s, x, e)]

TafCloudTail(s, type, q, x) == TafCloudMatch(s, type, q, x, ConvectiveEnd(s, x))

\* (\d{3}|///)? is tried present before absent
TafCloudOfType(s, type, q) ==
    OrElseMatch(IF DigitsAt(s, q, 3) \/ Lit(s, q, "///") THEN TafCloudTail(s, type, q, q + 3)
                ELSE [end |-> NoMatch],
                TafCloudTail(s, type, q, q))

TafCloudWith(s, p, i) ==
    IF i = 0 THEN [end |-> NoMatch]
    ELSE TafCloudOfType(s, TafCloudTypes[i], p + Len(TafCloudTypes[i]))

\* \b(FEW|SCT|BKN|OVC|VV|NSC|SKC)(\d{3}|///)?(CB|TCU)?\b :
\* [end, type, height, convective] or [end |-> NoMatch]
TafCloudAt(s, p) ==
    IF WordBoundary(s, p) THEN TafCloudWith(s, p, AltAt(s, p, TafCloudTypes))
    ELSE [end |-> NoMatch]

\* a cloud entry carries "convective" only when the suffix is there
TafCloudEntry(m) ==
    IF m.convective = "" THEN [type |-> m.type, height |-> m.height]
    ELSE [type |-> m.type, height |-> m.height, convective |-> m.convective]

RECURSIVE FindTafClouds(_, _)
TafCloudsFrom(s, m) ==
    IF m.end = NoMatch THEN <<>> ELSE <<TafCloudEntry(m)>> \o FindTafClouds(s, m.end)

FindTafClouds(s, p) ==
    TafCloudsFrom(s, TafCloudAt(s, SearchFrom(s, p, LAMBDA a, b : TafCloudAt(a, b).end)))

PeriodTypes == {"TEMPO", "BECMG", "PROB30", "PROB40", "PROB30 TEMPO", "PROB40 TEMPO"}

\* VCSH adds a vicinity shower to the list (taf_parser.py 160-167)
WithVicinityShowers(s, wx) ==
    IF SearchWord(s, "VCSH") # NoMatch
    THEN wx \o <<[intensity |-> "VC", descriptor |-> "SH", phenomenon |-> "RA"]>>
    ELSE wx

\* the weather list: the findall, replaced by NSW, extended by VCSH (taf_parser.py 140-167)
TafWeather(s) ==
    WithVicinityShowers(s, IF SearchWord(s, "NSW") # NoMatch THEN <<[phenomenon |-> "NSW"]>>
                           ELSE FindWeather(s, 0, TRUE))

\* a validity window that would be read for a group of any type, the base included
PeriodOfAnyType(d, s, type, per) ==
    IF per # NoMatch
    THEN Put(Put(d, "valid_from", Slice(s, per, per + 4)), "valid_to", Slice(s, per + 5, per + 9))
    ELSE d

\* taf_parser.py 68-73
PeriodFields(d, s, type, per) ==
    IF type \in PeriodTypes /\ per # NoMatch
    THEN Put(Put(d, "valid_from", Slice(s, per, per + 4)), "valid_to", Slice(s, per + 5, per + 9))
    ELSE d

\* taf_parser.py 74-77
FmFields(d, s, type, fm) ==
    IF type = "FM" /\ fm # NoMatch THEN Put(d, "valid_from", Slice(s, fm + 2, fm + 8)) ELSE d

\* taf_parser.py 80-104
WindShearFields(d, s, ws) ==
    IF ws # NoMatch THEN Put(d, "wind_shear", WindShearRecord(s, ws)) ELSE d

\* taf_parser.py 107-126
TafWindFields(d, s, w) == IF w # NoMatch THEN Put(d, "wind", WindRecord(s, w)) ELSE d

\* taf_parser.py 131-137
TafVisibilityText(vt) == IF vt = "CAVOK" THEN "CAVOK" ELSE VisibilityText(vt)

\* taf_parser.py 129-137
TafVisibilityFields(d, s, v) ==
    IF v = NoMatch THEN d
    ELSE Put(d, "visibility", TafVisibilityText(Slice(s, v, TafVisibilityAt(s, v))))

_parse_forecast_group(s, type) ==
    PutNonEmpty(
      PutNonEmpty(
        TafVisibilityFields(
          TafWindFields(
            WindShearFields(
              FmFields(
                PeriodFields([type |-> type], s, type, Search(s, PeriodAt)),
                s, type, Search(s, FmAt)),
              s, Search(s, WindShearAt)),
            s, Search(s, WindAt)),
          s, Search(s, TafVisibilityAt)),
        "weather", TafWeather(s)),
      "clouds", FindTafClouds(s, 0))

-----------------------------------------------------------------------------
(* parse_taf (taf_parser.py 191-366)                                       *)

\* [A-Z]{4} at offset p
FourUpper(s, p) == \A i \in 0..3 : At(s, p + i) \in Upper

\* the station after "^", after "^TAF\s+AMD\s+" (ending at b) or after "^TAF\s+" (at a)
StationAfter(s, a, b) ==
    IF FourUpper(s, 0) THEN 0
    ELSE IF b # NoMatch /\ FourUpper(s, b) THEN b
    ELSE IF a # NoMatch /\ FourUpper(s, a) THEN a
    ELSE NoMatch

\* (?:AMD\s+|COR\s+) at offset a: its end, or NoMatch
AmendmentEnd(s, a) ==
    IF a # NoMatch /\ (Lit(s, a, "AMD") \/ Lit(s, a, "COR")) THEN SpacesAt(s, a + 3) ELSE NoMatch

StationAfterTaf(s, a) == StationAfter(s, a, AmendmentEnd(s, a))

\* (?:^|^TAF\s+(?:AMD\s+|COR\s+)?)([A-Z]{4}) : the offset of group(1), or NoMatch
TafStationStart(s) == StationAfterTaf(s, IF Lit(s, 0, "TAF") THEN SpacesAt(s, 3) ELSE NoMatch)

\* (\d{6})Z at offset a
IssueDigitsAt(s, a) ==
    IF a # NoMatch /\ DigitsAt(s, a, 6) /\ At(s, a + 6) = "Z" THEN a ELSE NoMatch

\* ([A-Z]{4})\s+(\d{6})Z : the offset of group(2), or NoMatch
IssueTimeAt(s, p) == IssueDigitsAt(s, IF FourUpper(s, p) THEN SpacesAt(s, p + 4) ELSE NoMatch)

\* \bNIL TAF\b and \bAMD NOT SKED\b are WordAt with the phrase

\* (\d{4})/(\d{4}) at offset a, the offset itself
PeriodStart(s, a) == IF a # NoMatch /\ PeriodAt(s, a) # NoMatch THEN a ELSE NoMatch

\* (\d{6})Z\s+(\d{4})/(\d{4}) : the offset of group(2), or NoMatch
ValidPeriodAt(s, p) ==
    PeriodStart(s, IF ObsTimeAt(s, p) # NoMatch THEN SpacesAt(s, p + 7) ELSE NoMatch)

\* the match, the digits of the value starting at a
TempForecastMatch(s, p, tag, a) ==
    IF Lit(s, p, tag) /\ DigitsAt(s, a, 2) /\ At(s, a + 2) = "/" /\ DigitsAt(s, a + 3, 4)
       /\ At(s, a + 7) = "Z"
    THEN [end |-> a + 8, value |-> ToSignedInt(Slice(s, p + 2, a + 2)),
          time |-> Slice(s, a + 3, a + 7)]
    ELSE [end |-> NoMatch]

\* TX(M?\d{2})/(\d{4})Z and TN(M?\d{2})/(\d{4})Z : [end, value, time] or [end |-> NoMatch]
TempForecastAt(s, p, tag) ==
    TempForecastMatch(s, p, tag, IF At(s, p + 2) = "M" THEN p + 3 ELSE p + 2)

RECURSIVE FindTempForecast(_, _, _)
TempForecastFrom(s, m, tag) ==
    IF m.end = NoMatch THEN <<>>
    ELSE <<[value |-> m.value, time |-> m.time]>> \o FindTempForecast(s, m.end, tag)

FindTempForecast(s, p, tag) ==
    TempForecastFrom(s,
        TempForecastAt(s, SearchFrom(s, p, LAMBDA a, b : TempForecastAt(a, b, tag).end), tag),
        tag)

\* QNH(\d{4})INS
QnhAt(s, p) ==
    IF Lit(s, p, "QNH") /\ DigitsAt(s, p + 3, 4) /\ Lit(s, p + 7, "INS") THEN p + 10 ELSE NoMatch

\* float("nn.nn") is kept as the number of hundredths
RECURSIVE FindQnh(_, _)
QnhFrom(s, q) ==
    IF q = NoMatch THEN <<>>
    ELSE <<[unit |-> "inHg", value |-> ToInt(Slice(s, q + 3, q + 7))]>> \o FindQnh(s, q + 10)

FindQnh(s, p) == QnhFrom(s, SearchFrom(s, p, QnhAt))

\* taf_without_remarks (taf_parser.py 293-298): cut at the first "RMK" substring when
\* \bRMK\b occurs somewhere
TafWithoutRemarks(s) ==
    IF SearchWord(s, "RMK") # NoMatch THEN Strip(Slice(s, 0, IndexOf(s, "RMK"))) ELSE s

\* (?:TEMPO|BECMG|PROB(?:30|40)|FM\d{6}) : the end offset of the keyword at p, or NoMatch
ChangeKeywordAt(s, p) ==
    IF Lit(s, p, "TEMPO") \/ Lit(s, p, "BECMG") THEN p + 5
    ELSE IF Lit(s, p, "PROB30") \/ Lit(s, p, "PROB40") THEN p + 6
    ELSE FmAt(s, p)

\* \b at the end e of a match
ThenBoundary(s, e) == IF e # NoMatch /\ WordBoundary(s, e) THEN e ELSE NoMatch

\* \b(TEMPO|BECMG|PROB30|PROB40|FM\d{6})\b  (change_indicators)
ChangeIndicatorAt(s, p) ==
    IF WordBoundary(s, p) THEN ThenBoundary(s, ChangeKeywordAt(s, p)) ELSE NoMatch

\* first_change.start(), or NoMatch
FirstChange(s) == Search(s, ChangeIndicatorAt)

\* a change keyword at the end a of the whitespace
KeywordAfterSpaces(s, a) == a # NoMatch /\ ChangeKeywordAt(s, a) # NoMatch

\* (?=\s+(?:TEMPO|BECMG|PROB(?:30|40)|FM\d{6})|$)
GroupLookahead(s, e) == KeywordAfterSpaces(s, SpacesAt(s, e)) \/ AtEnd(s, e)

\* [^\n]+? from offset a up to the lookahead: the least end that takes a character
LazyEnd(s, a) ==
    IF a = NoMatch THEN NoMatch
    ELSE Least({e \in (a + 1)..Len(s) :
                   GroupLookahead(s, e) /\ \A x \in a..(e - 1) : At(s, x) # "\n"})

\* the greatest element, or NoMatch
Greatest(S) == IF S = {} THEN NoMatch ELSE CHOOSE a \in S : \A x \in S : x <= a

\* \s+[^\n]+? from offset k up to the lookahead: the whitespace is greedy and gives
\* characters back only when the rest cannot match
SpacesThenLazy(s, k) ==
    LazyEnd(s, Greatest({a \in (k + 1)..(k + RunLen(s, k, Space)) : LazyEnd(s, a) # NoMatch}))

\* \d{4}/\d{4}\s+[^\n]+? and the lookahead, after the whitespace that ends at b
PeriodThenLazy(s, b) ==
    IF b # NoMatch /\ PeriodAt(s, b) # NoMatch THEN SpacesThenLazy(s, b + 9) ELSE NoMatch

\* TEMPO\s+ at offset a: its end, or NoMatch
TempoThenSpaces(s, a) ==
    IF a # NoMatch /\ Lit(s, a, "TEMPO") THEN SpacesAt(s, a + 5) ELSE NoMatch

\* prob_tempo_pattern: PROB(?:30|40)\s+TEMPO\s+\d{4}/\d{4}\s+[^\n]+? and the lookahead
ProbTempoAt(s, p) ==
    IF Lit(s, p, "PROB30") \/ Lit(s, p, "PROB40")
    THEN PeriodThenLazy(s, TempoThenSpaces(s, SpacesAt(s, p + 6)))
    ELSE NoMatch

\* (?!\s+TEMPO) at offset p, a being the end of the whitespace at p
NoTempoAt(s, a) == ~(a # NoMatch /\ Lit(s, a, "TEMPO"))

NotThenTempo(s, p) == NoTempoAt(s, SpacesAt(s, p))

\* the rest of other_pattern after the keyword that ends at k
OtherGroupAfter(s, p, k) ==
    IF k # NoMatch /\ (Lit(s, p, "PROB") => NotThenTempo(s, k))
    THEN SpacesThenLazy(s, k) ELSE NoMatch

\* other_pattern: (?:TEMPO|BECMG|PROB(?:30|40)(?!\s+TEMPO)|FM\d{6})\s+[^\n]+? and the lookahead
OtherGroupAt(s, p) == OtherGroupAfter(s, p, ChangeKeywordAt(s, p))

\* list(re.finditer(pattern, changes_text)): the spans [start, end), left to right
RECURSIVE FindProbTempo(_, _)
ProbTempoSpan(s, q, e) ==
    IF q = NoMatch THEN <<>> ELSE <<[start |-> q, end |-> e]>> \o FindProbTempo(s, e)

ProbTempoFrom(s, q) == ProbTempoSpan(s, q, ProbTempoAt(s, q))

FindProbTempo(s, p) == ProbTempoFrom(s, SearchFrom(s, p, ProbTempoAt))

RECURSIVE FindOtherGroups(_, _)
OtherGroupSpan(s, q, e) ==
    IF q = NoMatch THEN <<>> ELSE <<[start |-> q, end |-> e]>> \o FindOtherGroups(s, e)

OtherGroupFrom(s, q) == OtherGroupSpan(s, q, OtherGroupAt(s, q))

FindOtherGroups(s, p) == OtherGroupFrom(s, SearchFrom(s, p, OtherGroupAt))

\* all_matches.sort(key=lambda x: x.start()): a stable sort, by taking out the first
\* of the matches with the least start again and again
RECURSIVE SortByStart(_)
TakeOut(ms, i) ==
    <<ms[i]>> \o SortByStart(SubSeq(ms, 1, i - 1) \o SubSeq(ms, i + 1, Len(ms)))

SortByStart(ms) ==
    IF ms = <<>> THEN <<>>
    ELSE TakeOut(ms, CHOOSE i \in 1..Len(ms) :
                        /\ \A j \in 1..Len(ms) : ms[i].start <= ms[j].start
                        /\ \A j \in 1..(i - 1) : ms[j].start # ms[i].start)

\* a filter that would keep every candidate
KeepsEvery(start, last_end) == TRUE

\* whether a candidate that starts at start survives after a kept span ending at last_end
KeepsMatch(start, last_end) == start >= last_end

\* filtered_matches (taf_parser.py 332-337)
RECURSIVE FilterOverlaps(_, _)
FilterOverlaps(ms, last_end) ==
    IF ms = <<>> THEN <<>>
    ELSE IF KeepsMatch(ms[1].start, last_end)
    THEN <<ms[1]>> \o FilterOverlaps(Tail(ms), ms[1].end)
    ELSE FilterOverlaps(Tail(ms), last_end)

\* all_matches after the sort (taf_parser.py 321-329)
AllMatches(changes) == SortByStart(FindProbTempo(changes, 0) \o FindOtherGroups(changes, 0))

\* the startswith chain (taf_parser.py 343-358); "" stands for "continue"
GroupType(g) ==
    IF Lit(g, 0, "PROB30 TEMPO") THEN "PROB30 TEMPO"
    ELSE IF Lit(g, 0, "PROB40 TEMPO") THEN "PROB40 TEMPO"
    ELSE IF Lit(g, 0, "PROB30") THEN "PROB30"
    ELSE IF Lit(g, 0, "PROB40") THEN "PROB40"
    ELSE IF Lit(g, 0, "TEMPO") THEN "TEMPO"
    ELSE IF Lit(g, 0, "BECMG") THEN "BECMG"
    ELSE IF Lit(g, 0, "FM") THEN "FM"
    ELSE ""

\* one turn of the loop (taf_parser.py 340-361): the group text g, of the type found
GroupOfType(g, type) == IF type = "" THEN <<>> ELSE <<_parse_forecast_group(g, type)>>

\* a loop turn that would parse every group as a base forecast
GroupAsBase(g) == <<_parse_forecast_group(g, "BASE")>>

GroupOf(g) == GroupOfType(g, GroupType(g))

\* the loop over filtered_matches (taf_parser.py 339-361)
RECURSIVE ParseGroups(_, _)
ParseGroups(changes, ms) ==
    IF ms = <<>> THEN <<>>
    ELSE GroupOf(Strip(Slice(changes, ms[1].start, ms[1].end))) \o ParseGroups(changes, Tail(ms))

\* changes_text (taf_parser.py 315)
ChangesText(body) == Strip(Slice(body, FirstChange(body), Len(body)))

\* a base_text that would cut at first_change.start() without testing for a match
BaseCut(body, p) == Strip(Slice(body, 0, p))

\* base_text (taf_parser.py 305-308), p being first_change.start() or NoMatch
BaseUpTo(body, p) == IF p # NoMatch THEN Strip(Slice(body, 0, p)) ELSE Strip(body)

BaseText(body) == BaseUpTo(body, FirstChange(body))

\* a flag that would look for NOT SKED alone
NotSked(s) == SearchWord(s, "NOT SKED") # NoMatch

\* bool(re.search(r'\bAMD NOT SKED\b', taf)) (taf_parser.py 248)
AmdNotSked(s) == SearchWord(s, "AMD NOT SKED") # NoMatch

\* The blocks of parse_taf's try body, in source order
TafBlocks == <<"station_id", "issue_time", "is_amended", "is_corrected", "is_nil", "is_auto",
               "amd_not_sked", "valid_period", "temperature_forecast", "qnh_forecast",
               "remarks", "base_forecast", "forecast_changes">>

\* "if d: parsed[k] = d" for a dict
PutNonEmptyDict(d, k, v) == IF DOMAIN v = {} THEN d ELSE Put(d, k, v)

\* temp_forecast (taf_parser.py 257-282)
TempForecast(s) ==
    PutNonEmpty(PutNonEmpty(EmptyDict, "max_temperature", FindTempForecast(s, 0, "TX")),
                "min_temperature", FindTempForecast(s, 0, "TN"))

\* the change groups of changes_text, parsed (taf_parser.py 317-361)
GroupsOf(changes) == ParseGroups(changes, FilterOverlaps(AllMatches(changes), -1))

\* the change groups of the body, parsed (taf_parser.py 314-361)
ForecastChanges(body) == GroupsOf(ChangesText(body))

\* taf_parser.py 226-229
TafStationFields(d, s, p) ==
    IF p = NoMatch THEN d ELSE Put(d, "station_id", Slice(s, p, p + 4))

\* taf_parser.py 232-234
IssueTimeFields(d, s, a) == IF a = NoMatch THEN d ELSE Put(d, "issue_time", Slice(s, a, a + 6))

\* taf_parser.py 250-254
ValidPeriodFields(d, s, a) ==
    IF a = NoMatch THEN d
    ELSE Put(Put(d, "valid_from", Slice(s, a, a + 4)), "valid_to", Slice(s, a + 5, a + 9))

\* taf_parser.py 313-361
ChangesFields(d, body) ==
    IF FirstChange(body) = NoMatch THEN d ELSE Put(d, "forecast_changes", ForecastChanges(body))

\* one block of parse_taf: the report after it, from the report d before it
TafBlock(b, s, d) ==
    CASE b = "station_id" -> TafStationFields(d, s, TafStationStart(s))
      [] b = "issue_time" -> IssueTimeFields(d, s, SearchEnd(s, IssueTimeAt))
      [] b = "is_amended" -> Put(d, "is_amended", SearchWord(s, "AMD") # NoMatch)
      [] b = "is_corrected" -> Put(d, "is_corrected", SearchWord(s, "COR") # NoMatch)
      [] b = "is_nil" -> Put(d, "is_nil", SearchWord(s, "NIL TAF") # NoMatch)
      [] b = "is_auto" -> Put(d, "is_auto", SearchWord(s, "AUTO") # NoMatch)
      [] b = "amd_not_sked" -> Put(d, "amd_not_sked", AmdNotSked(s))
      [] b = "valid_period" -> ValidPeriodFields(d, s, SearchEnd(s, ValidPeriodAt))
      [] b = "temperature_forecast" -> PutNonEmptyDict(d, "temperature_forecast", TempForecast(s))
      [] b = "qnh_forecast" -> PutNonEmpty(d, "qnh_forecast", FindQnh(s, 0))
      [] b = "remarks" -> RemarksFields(d, s, SearchWord(s, "RMK"))
      [] b = "base_forecast" ->
           Put(d, "base_forecast", _parse_forecast_group(BaseText(TafWithoutRemarks(s)), "BASE"))
      [] b = "forecast_changes" -> ChangesFields(d, TafWithoutRemarks(s))

\* the try body of parse_taf from block k on, with the block f failing (0: none):
\* whether it raised, and the report at that point
RECURSIVE TafBlocksFrom(_, _, _, _)
TafBlocksFrom(k, f, s, d) ==
    IF k > Len(TafBlocks) THEN [failed |-> FALSE, d |-> d]
    ELSE IF k = f THEN [failed |-> TRUE, d |-> d]
    ELSE TafBlocksFrom(k + 1, f, s, TafBlock(TafBlocks[k], s, d))

\* parse_taf(a) with the block f failing: how the call ends
parse_taf(a, f) ==
    IF ~IsNonEmptyStr(a) THEN Returned(EmptyDict)
    ELSE EndOfTry(TafBlocksFrom(1, f, a.s, EmptyDict))

-----------------------------------------------------------------------------

(* Rendering primitives shared by format_metar and format_taf              *)
(* The module text is ASCII: the degree sign of metar_parser.py is written *)
(* as the entity &#176; that taf_parser.py itself uses, and the sign for   *)
(* "at least" as &#8805;.                                                  *)

\* d.get(k, default)
Get(d, k, default) == IF Has(d, k) THEN d[k] ELSE default

\* "if d.get(k):" by the type of the value the key holds
IsTrue(d, k) == Has(d, k) /\ d[k] = TRUE
NonEmptyStr(d, k) == Has(d, k) /\ d[k] # NoneStr /\ d[k] # ""
NonEmptySeq(d, k) == Has(d, k) /\ d[k] # <<>>
NonEmptyDict(d, k) == Has(d, k) /\ DOMAIN d[k] # {}
NonZero(d, k) == Has(d, k) /\ d[k] # NoneNum /\ d[k][1] # 0

\* table.get(k, default) for a lookup table
MapGet(table, k, default) == IF k \in DOMAIN table THEN table[k] ELSE default

\* sep.join(xs)
RECURSIVE Join(_, _)
Join(xs, sep) ==
    IF xs = <<>> THEN ""
    ELSE IF Len(xs) = 1 THEN xs[1]
    ELSE xs[1] \o sep \o Join(Tail(xs), sep)

\* [f(x) for x in xs]
MapSeq(xs, F(_)) == [i \in 1..Len(xs) |-> F(xs[i])]

\* lists laid end to end
RECURSIVE Concat(_)
Concat(xss) == IF xss = <<>> THEN <<>> ELSE xss[1] \o Concat(Tail(xss))

\* "for i, x in enumerate(xs, 1): lines.extend(F(x, i))"
FlatMap(xs, F(_, _)) == Concat([i \in 1..Len(xs) |-> F(xs[i], i)])

\* f"{x}" of a float kept in hundredths: repr drops the trailing zero but not the first decimal
FloatStr(h) ==
    ToString(h \div 100) \o "."
    \o (IF h % 10 = 0 THEN ToString((h % 100) \div 10) ELSE Pad2(h % 100))

\* str(e) of the exception the formatters catch
FormatErrorText == "rendering failed"

WeatherCodeDescriptions ==
    ("+" :> "Heavy") @@ ("-" :> "Light") @@
    [DZ |-> "Drizzle", RA |-> "Rain", SN |-> "Snow", SG |-> "Snow Grains",
     IC |-> "Ice Crystals", PL |-> "Ice Pellets", GR |-> "Hail",
     GS |-> "Small Hail/Snow Pellets", UP |-> "Unknown Precipitation",
     BR |-> "Mist", FG |-> "Fog", FU |-> "Smoke", VA |-> "Volcanic Ash",
     DU |-> "Dust", SA |-> "Sand", HZ |-> "Haze", PY |-> "Spray",
     SQ |-> "Squall", SS |-> "Sandstorm", DS |-> "Duststorm", FC |-> "Funnel Cloud",
     VC |-> "In the vicinity", MI |-> "Shallow", BC |-> "Patches", DR |-> "Drifting",
     BL |-> "Blowing", SH |-> "Showers", TS |-> "Thunderstorm", FZ |-> "Freezing"]

\* the parts of one weather entry that are present and not empty
WeatherParts(wx, table) ==
    LET Part(k) == IF NonEmptyStr(wx, k) THEN <<MapGet(table, wx[k], wx[k])>> ELSE <<>>
    IN  Part("intensity") \o Part("descriptor") \o Part("phenomenon")

\* " ".join(description_parts).strip()
WeatherDescription(wx) == Strip(Join(WeatherParts(wx, WeatherCodeDescriptions), " "))

\* the wind sentence both formatters build (metar_parser.py 469-477, taf_parser.py 828-838)
WindSentence(wind) ==
    LET direction == Get(wind, "direction", "N/A")
        speed == ToString(Get(wind, "speed", 0))
    IN  (IF direction = "VRB" THEN "Variable at " \o speed \o " KT"
         ELSE direction \o "&#176; at " \o speed \o " KT")
        \o (IF NonZero(wind, "gust") THEN " gusting to " \o ToString(wind["gust"][1]) \o " KT"
            ELSE "")

-----------------------------------------------------------------------------
(* format_metar (metar_parser.py 402-655)                                  *)

\* The blocks of format_metar's try body, in source order.  Each block reads its fields
\* (where a report with ill-typed fields makes the rendering fail) and appends its lines.
MetarFormatBlocks == <<"report_type", "report_modifier", "basic", "cavok", "wind", "visibility",
                       "sky_clear", "weather", "clouds", "temperature", "altimeter",
                       "runway_visual_range", "sea_level_pressure", "automated_station",
                       "weather_times", "military_weather_codes", "trend",
                       "maintenance_required", "sensor_failures", "remarks", "parse_error">>

ModifierDesc ==
    [AUTO |-> "Automated", COR |-> "Corrected", CCA |-> "First Correction",
     CCB |-> "Second Correction", CCC |-> "Third Correction", CCD |-> "Fourth Correction",
     CCE |-> "Fifth Correction", CCF |-> "Sixth Correction"]

MetarCloudMap ==
    [FEW |-> "Few", SCT |-> "Scattered", BKN |-> "Broken", OVC |-> "Overcast",
     NSC |-> "No Significant Cloud", VV |-> "Vertical Visibility (sky obscured)"]

TendencyMap == [D |-> "Decreasing", N |-> "No change", U |-> "Increasing"]

MilitaryCodeMap ==
    [BLU |-> "Blue", WHT |-> "White", GRN |-> "Green", YLO1 |-> "Yellow1", YLO2 |-> "Yellow2",
     AMB |-> "Amber", RED |-> "Red"]

SensorDescriptions ==
    [RVRNO |-> "Runway Visual Range", PWINO |-> "Present weather identifier sensor",
     PNO |-> "Tipping bucket rain gauge", FZRANO |-> "Freezing rain sensor",
     TSNO |-> "Lightning detection system", VISNO_LOC |-> "Secondary visibility sensor",
     CHINO_LOC |-> "Secondary ceiling height sensor"]

\* f"{temperature}" for the number, or the default 'N/A'
NumberOrNA(d, k) == IF Has(d, k) THEN ToString(d[k]) ELSE "N/A"

\* one cloud line (metar_parser.py 541-547)
MetarCloudLine(cloud) ==
    "  - " \o MapGet(MetarCloudMap, cloud["type"], cloud["type"])
    \o (IF cloud["height"] # NoneNum THEN " at " \o ToString(cloud["height"][1] * 100) \o " feet"
        ELSE " at unknown height")

\* one runway line (metar_parser.py 566-570)
RvrLine(r) ==
    LET tendency == MapGet(TendencyMap, r["tendency"], "")
    IN  "  - " \o r["runway"] \o ": " \o ToString(r["range"]) \o " meters"
        \o (IF tendency # "" THEN " (" \o tendency \o ")" ELSE "")

\* one begin / end line (metar_parser.py 589-593)
WeatherTimeLine(item, verb) ==
    "  - " \o item.type \o " " \o verb \o " at :" \o Pad2(item.minute) \o " past the hour"

\* the lines one block of format_metar appends for the report d
MetarFormatBlock(b, d) ==
    CASE b = "report_type" ->
           IF Get(d, "report_type", "METAR") = "SPECI"
           THEN <<"Report Type: SPECI (Special Observation)">>
           ELSE <<"Report Type: METAR (Routine Observation)">>
      [] b = "report_modifier" ->
           IF NonEmptyStr(d, "report_modifier")
           THEN <<"Report Modifier: "
                  \o MapGet(ModifierDesc, d["report_modifier"], d["report_modifier"])>>
           ELSE <<>>
      [] b = "basic" ->
           <<"Station: " \o Get(d, "station_id", "N/A"),
             "Observation Day: " \o Get(d, "observation_day_ordinal", "N/A"),
             "Observation Time: " \o Get(d, "observation_time_hm", "N/A")>>
      [] b = "cavok" ->
           IF IsTrue(d, "cavok")
           THEN <<"CAVOK: Ceiling and Visibility OK", "  - Visibility &#8805;10 km",
                  "  - No clouds below 5000 ft", "  - No cumulonimbus or towering cumulus",
                  "  - No significant weather">>
           ELSE <<>>
      [] b = "wind" ->
           IF IsTrue(d, "wind_calm") THEN <<"Wind: Calm">>
           ELSE IF NonEmptyDict(d, "wind")
           THEN <<"Wind: " \o WindSentence(d["wind"])
                  \o (IF Has(d["wind"], "variation")
                      THEN " (varying between " \o ToString(d["wind"]["variation"]["from"])
                           \o "&#176; and " \o ToString(d["wind"]["variation"]["to"])
                           \o "&#176;)"
                      ELSE "")>>
           ELSE <<>>
      [] b = "visibility" ->
           IF IsTrue(d, "cavok") THEN <<>>
           ELSE <<"Visibility: " \o Get(d, "visibility", "N/A")>>
      [] b = "sky_clear" ->
           IF ~IsTrue(d, "sky_clear") THEN <<>>
           ELSE IF Get(d, "sky_clear_type", NoneStr) = "SKC"
           THEN <<"Sky Condition: SKC (Sky Clear - manually observed)">>
           ELSE IF Get(d, "sky_clear_type", NoneStr) = "CLR"
           THEN <<"Sky Condition: CLR (Clear - automated observation)">>
           ELSE <<>>
      [] b = "weather" ->
           IF ~IsTrue(d, "cavok") /\ NonEmptySeq(d, "weather")
           THEN <<"Weather: " \o Join(MapSeq(d["weather"], WeatherDescription), ", ")>>
           ELSE <<>>
      [] b = "clouds" ->
           IF ~IsTrue(d, "cavok") /\ ~IsTrue(d, "sky_clear") /\ Has(d, "clouds")
           THEN <<"Clouds:">> \o MapSeq(d["clouds"], MetarCloudLine)
           ELSE <<>>
      [] b = "temperature" ->
           <<"Temperature/Dewpoint: " \o NumberOrNA(d, "temperature") \o "/"
             \o NumberOrNA(d, "dewpoint") \o " &#176;C">>
      [] b = "altimeter" ->
           IF ~NonEmptyDict(d, "altimeter") THEN <<>>
           ELSE IF d["altimeter"]["unit"] = "hPa"
           THEN <<"Altimeter: " \o ToString(d["altimeter"]["value"]) \o " hPa">>
           ELSE IF d["altimeter"]["unit"] = "inHg"
           THEN <<"Altimeter: " \o FloatStr(d["altimeter"]["value"]) \o " inHg">>
           ELSE <<>>
      [] b = "runway_visual_range" ->
           IF NonEmptySeq(d, "runway_visual_range")
           THEN <<"Runway Visual Range:">> \o MapSeq(d["runway_visual_range"], RvrLine)
           ELSE <<>>
      [] b = "sea_level_pressure" ->
           IF Has(d, "sea_level_pressure") /\ d["sea_level_pressure"] # 0
           THEN <<"Sea Level Pressure: " \o ToString(d["sea_level_pressure"]) \o " mb">>
           ELSE <<>>
      [] b = "automated_station" ->
           IF Get(d, "automated_station", "") = "AO1"
           THEN <<"Station Type: AO1 (Automated without precipitation discriminator)">>
           ELSE IF Get(d, "automated_station", "") = "AO2"
           THEN <<"Station Type: AO2 (Automated with precipitation discriminator)">>
           ELSE <<>>
      [] b = "weather_times" ->
           IF NonEmptySeq(d, "weather_began") \/ NonEmptySeq(d, "weather_ended")
           THEN <<"Weather Event Times:">>
                \o MapSeq(Get(d, "weather_began", <<>>), LAMBDA x : WeatherTimeLine(x, "began"))
                \o MapSeq(Get(d, "weather_ended", <<>>), LAMBDA x : WeatherTimeLine(x, "ended"))
           ELSE <<>>
      [] b = "military_weather_codes" ->
           LET codes == MapSeq(Get(d, "military_weather_codes", <<>>),
                               LAMBDA c : MapGet(MilitaryCodeMap, c, c))
           IN  IF codes = <<>> THEN <<>>
               ELSE IF IsTrue(d, "military_weather_codes_tempo") /\ Len(codes) >= 2
               THEN <<"Military Weather Codes: " \o codes[1] \o " temporary " \o codes[2]>>
               ELSE <<"Military Weather Codes: " \o Join(codes, ", ")>>
      [] b = "trend" ->
           LET trend == Get(d, "trend", EmptyDict)
               details == IF NonEmptyStr(trend, "details") THEN " - " \o trend["details"] ELSE ""
           IN  IF DOMAIN trend = {} THEN <<>>
               ELSE IF trend["type"] = "NOSIG"
               THEN <<"Trend: NOSIG (No significant change expected in next 2 hours)">>
               ELSE IF trend["type"] = "TEMPO"
               THEN <<"Trend: TEMPO (Temporary conditions expected)" \o details>>
               ELSE IF trend["type"] = "BECMG"
               THEN <<"Trend: BECMG (Becoming - permanent change expected)" \o details>>
               ELSE <<>>
      [] b = "maintenance_required" ->
           IF IsTrue(d, "maintenance_required")
           THEN <<"Maintenance is required for this station.">> ELSE <<>>
      [] b = "sensor_failures" ->
           IF NonEmptySeq(d, "sensor_failures")
           THEN <<"Sensors not operating: "
                  \o Join(MapSeq(d["sensor_failures"],
                                 LAMBDA c : MapGet(SensorDescriptions, c, c)), ", ")>>
           ELSE <<>>
      [] b = "remarks" ->
           IF NonEmptyStr(d, "remarks") THEN <<"Remarks: " \o d["remarks"]>> ELSE <<>>
      [] b = "parse_error" ->
           IF Has(d, "parse_error") THEN <<"Parse Error: " \o d["parse_error"]>> ELSE <<>>

\* the handler of format_metar / _format_taf_text (metar_parser.py 652-653,
\* taf_parser.py 996-997): one more line after the lines rendered so far
FormatErrorHandler(lines) == Append(lines, "Formatting Error: " \o FormatErrorText)

\* how the try of format_metar / _format_taf_text ends: with the handler's line when it raised
EndOfFormatTry(try) == IF try.failed THEN FormatErrorHandler(try.lines) ELSE try.lines

\* the try body of format_metar from block k on, with the block f failing (0: none):
\* whether it raised, and the lines at that point
RECURSIVE MetarLinesFrom(_, _, _, _)
MetarLinesFrom(k, f, d, lines) ==
    IF k > Len(MetarFormatBlocks) THEN [failed |-> FALSE, lines |-> lines]
    ELSE IF k = f THEN [failed |-> TRUE, lines |-> lines]
    ELSE MetarLinesFrom(k + 1, f, d, lines \o MetarFormatBlock(MetarFormatBlocks[k], d))

\* An argument that a call leaves out
Absent == [t |-> "absent"]

\* the default of the eol parameter (metar_parser.py 402, taf_parser.py 774, 1002)
DefaultEol == [t |-> "str", s |-> "\n"]

\* the parameters of format_metar (metar_parser.py 402) and of format_taf (taf_parser.py 1002)
MetarFormatParams == {"parsed_metar", "eol"}
TafFormatParams == {"parsed_taf", "eol", "is_html"}

\* Python's binding of a call's arguments: an argument for which the function has no
\* parameter is a TypeError before the body runs
BindsArguments(params, call) ==
    /\ (call.eol.t # "absent" => "eol" \in params)
    /\ (call.is_html.t # "absent" => "is_html" \in params)

\* "if not parsed_metar or not isinstance(parsed_metar, dict)" (metar_parser.py 423,
\* taf_parser.py 1020)
IsNonEmptyDict(r) == r.t = "dict" /\ DOMAIN r.d # {}

\* "return eol.join(lines)" after the try (metar_parser.py 655, taf_parser.py 999): a value
\* that is no string has no join
JoinLines(eol, lines) ==
    IF eol.t = "str" THEN Returned(Join(lines, eol.s)) ELSE Raised("AttributeError")

\* the lines format_metar has when it leaves the try, the block f failing
MetarLines(d, f) == EndOfFormatTry(MetarLinesFrom(1, f, d, <<>>))

\* format_metar called with the report r and the further arguments of call, the block f
\* failing: how the call ends
format_metar(r, call, f) ==
    IF ~BindsArguments(MetarFormatParams, call) THEN Raised("TypeError")
    ELSE IF ~IsNonEmptyDict(r) THEN Returned("Invalid METAR data")
    ELSE JoinLines(IF call.eol.t = "absent" THEN DefaultEol ELSE call.eol, MetarLines(r.d, f))

-----------------------------------------------------------------------------
(* format_taf (taf_parser.py 26-53, 371-476, 531-1026)                     *)

\* _get_ordinal (taf_parser.py 26-32)
_get_ordinal(n) ==
    ToString(n) \o (IF 10 <= n % 100 /\ n % 100 <= 20 THEN "th"
                    ELSE CASE n % 10 = 1 -> "st" [] n % 10 = 2 -> "nd" [] n % 10 = 3 -> "rd"
                           [] OTHER -> "th")

\* _format_time_period (taf_parser.py 35-53): DDHH becomes "HH00 on DDth"; any other text,
\* the six digits of an FM group among them, is returned as it is
_format_time_period(time_str) ==
    IF Len(time_str) # 4 \/ ~DigitsAt(time_str, 0, 4) THEN time_str
    ELSE Pad2(ToInt(Slice(time_str, 2, 4))) \o "00 on " \o _get_ordinal(ToInt(Slice(time_str, 0, 2)))

\* "_format_time_period(t) if t != 'N/A' else 'N/A'" of d.get(k, 'N/A')
FormattedTime(d, k) == IF Has(d, k) THEN _format_time_period(d[k]) ELSE "N/A"

\* _get_wind_emoji (taf_parser.py 371-382)
_get_wind_emoji(speed, gust) ==
    IF gust # NoneNum /\ gust[1] # 0 /\ gust[1] > 25 THEN "&#127786;&#65039;"
    ELSE IF speed > 30 THEN "&#127786;&#65039;"
    ELSE IF speed > 20 THEN "&#128168;"
    ELSE IF speed > 10 THEN "&#128168;"
    ELSE "&#127788;&#65039;"

\* the body of the loop of _get_weather_emoji for one entry (taf_parser.py 391-434):
\* the symbol it returns, or "" when it goes on to the next entry
WeatherEmojiOf(wx) ==
    LET phenomenon == Get(wx, "phenomenon", "")
        descriptor == Get(wx, "descriptor", "")
        intensity  == Get(wx, "intensity", "")
    IN  IF descriptor = "TS" \/ phenomenon = "TS" THEN "&#9928;&#65039;"
        ELSE IF phenomenon = "SN"
        THEN (IF intensity = "-" THEN "&#10052;&#65039;" ELSE "&#127784;&#65039;")
        ELSE IF descriptor = "FZ" THEN "&#10052;&#65039;"
        ELSE IF phenomenon = "RA"
        THEN (IF descriptor = "SH" THEN "&#127782;&#65039;"
              ELSE IF intensity = "+" THEN "&#9928;&#65039;"
              ELSE IF intensity = "-" THEN "&#127782;&#65039;"
              ELSE "&#127783;&#65039;")
        ELSE IF descriptor = "SH" THEN "&#127782;&#65039;"
        ELSE IF phenomenon = "DZ" THEN "&#127782;&#65039;"
        ELSE IF phenomenon \in {"FG", "BR", "HZ"} THEN "&#127787;&#65039;"
        ELSE IF phenomenon \in {"DU", "SA"} THEN "&#127964;&#65039;"
        ELSE ""

\* _get_weather_emoji (taf_parser.py 385-436): the symbol of the first entry that has one
_get_weather_emoji(weather_list) ==
    LET hits == {i \in 1..Len(weather_list) : WeatherEmojiOf(weather_list[i]) # ""}
    IN  IF hits = {} THEN "" ELSE WeatherEmojiOf(weather_list[Min(hits)])

\* _get_cloud_emoji (taf_parser.py 439-452)
_get_cloud_emoji(cloud_type) ==
    IF cloud_type \in {"SKC", "NSC"} THEN "&#9728;&#65039;"
    ELSE IF cloud_type \in {"FEW", "SCT"} THEN "&#9925;"
    ELSE IF cloud_type \in {"BKN", "OVC"} THEN "&#9729;&#65039;"
    ELSE IF cloud_type = "VV" THEN "&#127787;&#65039;"
    ELSE "&#9729;&#65039;"

\* _get_convective_emoji (taf_parser.py 455-461)
_get_convective_emoji(convective) ==
    IF convective = "CB" THEN "&#9928;&#65039;"
    ELSE IF convective = "TCU" THEN "&#127785;&#65039;"
    ELSE ""

\* _get_change_type_emoji (taf_parser.py 464-476)
_get_change_type_emoji(change_type) ==
    MapGet(("PROB30 TEMPO" :> "&#127922;") @@ ("PROB40 TEMPO" :> "&#127922;") @@
           [BASE |-> "&#127780;&#65039;", TEMPO |-> "&#9201;&#65039;", BECMG |-> "&#128200;",
            PROB30 |-> "&#127922;", PROB40 |-> "&#127922;", FM |-> "&#9193;"],
           change_type, "&#128260;")

\* _get_taf_css (taf_parser.py 479-528): the style sheet, a constant text cut to its first tag
_get_taf_css == "<style>"

TafWeatherCodeDescriptions == WeatherCodeDescriptions @@ [NSW |-> "No Significant Weather"]

TafCloudMap ==
    [FEW |-> "Few", SCT |-> "Scattered", BKN |-> "Broken", OVC |-> "Overcast",
     NSC |-> "No Significant Cloud", SKC |-> "Sky Clear", VV |-> "Vertical Visibility"]

ConvectiveMap == [CB |-> " (Cumulonimbus)", TCU |-> " (Towering Cumulus)"]

\* one entry of weather_descriptions (taf_parser.py 622-640, 861-884)
TafWeatherDescription(wx) ==
    IF Get(wx, "phenomenon", NoneStr) = "NSW" THEN "No Significant Weather"
    ELSE Strip(Join(WeatherParts(wx, TafWeatherCodeDescriptions), " "))

\* "{cloud_type} at {height * 100} feet{convective_str}" (taf_parser.py 898-912)
TafCloudText(cloud) ==
    MapGet(TafCloudMap, cloud["type"], cloud["type"])
    \o (IF cloud["height"] # NoneNum THEN " at " \o ToString(cloud["height"][1] * 100) \o " feet"
        ELSE " at unknown height")
    \o MapGet(ConvectiveMap, Get(cloud, "convective", ""), "")

\* the wind shear sentence (taf_parser.py 815-823)
WindShearSentence(ws) ==
    "Wind shear at " \o ToString(Get(ws, "height", 0)) \o " feet: "
    \o Get(ws, "direction", "N/A") \o "&#176; at " \o ToString(Get(ws, "speed", 0)) \o " KT"
    \o (IF NonZero(ws, "gust") THEN " gusting to " \o ToString(ws["gust"][1]) \o " KT" ELSE "")

\* format_conditions of _format_taf_text (taf_parser.py 809-914)
format_conditions(forecast, indent) ==
    (IF NonEmptyDict(forecast, "wind_shear")
     THEN <<indent \o "Wind Shear: " \o WindShearSentence(forecast["wind_shear"])>> ELSE <<>>)
    \o (IF NonEmptyDict(forecast, "wind")
        THEN <<indent \o "Wind: " \o WindSentence(forecast["wind"])>> ELSE <<>>)
    \o (IF NonEmptyStr(forecast, "visibility")
        THEN <<indent \o "Visibility: " \o forecast["visibility"]>> ELSE <<>>)
    \o (IF NonEmptySeq(forecast, "weather")
        THEN <<indent \o "Weather: "
               \o Join(MapSeq(forecast["weather"], TafWeatherDescription), ", ")>>
        ELSE <<>>)
    \o (IF NonEmptySeq(forecast, "clouds")
        THEN <<indent \o "Clouds:">>
             \o MapSeq(forecast["clouds"], LAMBDA c : indent \o "  - " \o TafCloudText(c))
        ELSE <<>>)

\* the words of a change group's header by its type (taf_parser.py 929-958, 690-719);
\* "" for a type that gets no header
ChangeHeaderWords(change_type) ==
    CASE change_type = "FM" -> "FROM"
      [] change_type \in {"PROB30 TEMPO", "PROB40 TEMPO"} -> Slice(change_type, 0, 6) \o " TEMPORARY"
      [] change_type \in {"PROB30", "PROB40"} -> change_type
      [] change_type = "TEMPO" -> "TEMPORARY"
      [] change_type = "BECMG" -> "BECOMING"
      [] OTHER -> ""

\* the times of a change group's header: "from to to", for FM the one time
ChangeHeaderTimes(change) ==
    IF Get(change, "type", "UNKNOWN") = "FM" THEN FormattedTime(change, "valid_from")
    ELSE FormattedTime(change, "valid_from") \o " to " \o FormattedTime(change, "valid_to")

\* the lines of one change group in _format_taf_text (taf_parser.py 925-961)
TextChangeLines(change, i) ==
    LET words == ChangeHeaderWords(Get(change, "type", "UNKNOWN"))
    IN  (IF words = "" THEN <<>>
         ELSE <<"  " \o ToString(i) \o ". " \o words \o " " \o ChangeHeaderTimes(change) \o ":">>)
        \o format_conditions(change, "     ") \o <<"">>

\* the flags list (taf_parser.py 790-800, 551-561), alert being the prefix of the first two
TafFlags(d, alert) ==
    (IF IsTrue(d, "is_amended") THEN <<alert \o "AMENDED">> ELSE <<>>)
    \o (IF IsTrue(d, "is_corrected") THEN <<alert \o "CORRECTED">> ELSE <<>>)
    \o (IF IsTrue(d, "is_nil") THEN <<"NIL (Forecast Suspended)">> ELSE <<>>)
    \o (IF IsTrue(d, "is_auto") THEN <<"AUTOMATED">> ELSE <<>>)
    \o (IF IsTrue(d, "amd_not_sked") THEN <<"AMD NOT SKED (Updates not scheduled)">> ELSE <<>>)

\* The blocks of the try body of _format_taf_text and of _format_taf_html, in source order
TafFormatBlocks == <<"basic", "valid_period", "flags", "base_forecast", "forecast_changes",
                     "temperature_forecast", "qnh_forecast", "remarks", "parse_error">>

\* the lines one block of _format_taf_text appends for the report d (taf_parser.py 779-994)
TafTextBlock(b, d) ==
    CASE b = "basic" ->
           <<"Station: " \o Get(d, "station_id", "N/A"),
             "Issue Time: " \o Get(d, "issue_time", "N/A") \o "Z">>
      [] b = "valid_period" ->
           <<"Valid Period: " \o FormattedTime(d, "valid_from") \o " to "
             \o FormattedTime(d, "valid_to")>>
      [] b = "flags" ->
           (IF TafFlags(d, "") # <<>> THEN <<"Type: " \o Join(TafFlags(d, ""), ", ")>> ELSE <<>>)
           \o <<"">>
      [] b = "base_forecast" ->
           IF NonEmptyDict(d, "base_forecast")
           THEN <<"BASE FORECAST:">> \o format_conditions(d["base_forecast"], "  ") \o <<"">>
           ELSE <<>>
      [] b = "forecast_changes" ->
           IF NonEmptySeq(d, "forecast_changes")
           THEN <<"FORECAST CHANGES:">> \o FlatMap(d["forecast_changes"], TextChangeLines)
           ELSE <<>>
      [] b = "temperature_forecast" ->
           IF NonEmptyDict(d, "temperature_forecast")
           THEN <<"TEMPERATURE FORECAST:">>
                \o MapSeq(Get(d["temperature_forecast"], "max_temperature", <<>>),
                          LAMBDA t : "  Maximum: " \o ToString(t["value"]) \o "&#176;C at "
                                     \o t["time"] \o "Z")
                \o MapSeq(Get(d["temperature_forecast"], "min_temperature", <<>>),
                          LAMBDA t : "  Minimum: " \o ToString(t["value"]) \o "&#176;C at "
                                     \o t["time"] \o "Z")
                \o <<"">>
           ELSE <<>>
      [] b = "qnh_forecast" ->
           IF NonEmptySeq(d, "qnh_forecast")
           THEN <<"PRESSURE FORECAST:">>
                \o FlatMap(d["qnh_forecast"],
                           LAMBDA qnh, i : <<"  " \o ToString(i) \o ". QNH: "
                                             \o FloatStr(qnh["value"]) \o " " \o qnh["unit"]>>)
                \o <<"">>
           ELSE <<>>
      [] b = "remarks" ->
           IF NonEmptyStr(d, "remarks") THEN <<"Remarks: " \o d["remarks"]>> ELSE <<>>
      [] b = "parse_error" ->
           IF Has(d, "parse_error") THEN <<"Parse Error: " \o d["parse_error"]>> ELSE <<>>

\* '<p><span class="label">NAME:</span> TEXT</p>'
LabelLine(indent, name, text) ==
    indent \o "<p><span class=\"label\">" \o name \o ":</span> " \o text \o "</p>"

\* '<h3 class="forecast-section">EMOJI <span class="section-title">TITLE</span></h3>'
SectionLine(emoji, title) ==
    "  <h3 class=\"forecast-section\">" \o emoji \o " <span class=\"section-title\">" \o title
    \o "</span></h3>"

\* format_conditions_html of _format_taf_html (taf_parser.py 566-677)
format_conditions_html(forecast, indent) ==
    (IF NonEmptyDict(forecast, "wind_shear")
     THEN <<LabelLine(indent, "Wind Shear",
                      "&#128314; " \o WindShearSentence(forecast["wind_shear"]))>>
     ELSE <<>>)
    \o (IF NonEmptyDict(forecast, "wind")
        THEN <<LabelLine(indent, "Wind",
                         _get_wind_emoji(Get(forecast["wind"], "speed", 0),
                                         Get(forecast["wind"], "gust", NoneNum))
                         \o " " \o WindSentence(forecast["wind"]))>>
        ELSE <<>>)
    \o (IF NonEmptyStr(forecast, "visibility")
        THEN <<LabelLine(indent, "Visibility",
                         (IF forecast["visibility"] = "CAVOK" THEN "&#9728;&#65039;"
                          ELSE "&#128065;&#65039;") \o " " \o forecast["visibility"])>>
        ELSE <<>>)
    \o (IF NonEmptySeq(forecast, "weather")
        THEN <<LabelLine(indent, "Weather",
                         _get_weather_emoji(forecast["weather"]) \o " "
                         \o Join(MapSeq(forecast["weather"], TafWeatherDescription), ", "))>>
        ELSE <<>>)
    \o (IF NonEmptySeq(forecast, "clouds")
        THEN <<indent \o "<p><span class=\"label\">Clouds:</span></p>", indent \o "<ul>">>
             \o MapSeq(forecast["clouds"],
                       LAMBDA c : indent \o "  <li>" \o _get_cloud_emoji(c["type"])
                                  \o _get_convective_emoji(Get(c, "convective", ""))
                                  \o " " \o TafCloudText(c) \o "</li>")
             \o <<indent \o "</ul>">>
        ELSE <<>>)

\* the lines of one change group in _format_taf_html (taf_parser.py 686-723)
HtmlChangeLines(change, i) ==
    LET type == Get(change, "type", "UNKNOWN")
        words == ChangeHeaderWords(type)
    IN  (IF words = "" THEN <<>>
         ELSE <<"    <h4 class=\"change-group\">" \o ToString(i) \o ". "
                \o _get_change_type_emoji(type) \o " <span class=\"change-type\">" \o words
                \o "</span> " \o ChangeHeaderTimes(change) \o ":</h4>">>)
        \o <<"    <div class=\"change-content\">">>
        \o format_conditions_html(change, "      ")
        \o <<"    </div>">>

\* the lines one block of _format_taf_html appends for the report d (taf_parser.py 538-765)
TafHtmlBlock(b, d) ==
    CASE b = "basic" ->
           <<LabelLine("  ", "Station", Get(d, "station_id", "N/A")),
             LabelLine("  ", "Issue Time", Get(d, "issue_time", "N/A") \o "Z &#9200;")>>
      [] b = "valid_period" ->
           <<LabelLine("  ", "Valid Period",
                       "&#128197; " \o FormattedTime(d, "valid_from") \o " to "
                       \o FormattedTime(d, "valid_to"))>>
      [] b = "flags" ->
           IF TafFlags(d, "&#9888;&#65039; ") # <<>>
           THEN <<LabelLine("  ", "Type", Join(TafFlags(d, "&#9888;&#65039; "), ", "))>>
           ELSE <<>>
      [] b = "base_forecast" ->
           IF NonEmptyDict(d, "base_forecast")
           THEN <<SectionLine(_get_change_type_emoji("BASE"), "BASE FORECAST"),
                  "  <div class=\"forecast-content\">">>
                \o format_conditions_html(d["base_forecast"], "    ")
                \o <<"  </div>">>
           ELSE <<>>
      [] b = "forecast_changes" ->
           IF NonEmptySeq(d, "forecast_changes")
           THEN <<SectionLine("&#128260;", "FORECAST CHANGES"),
                  "  <div class=\"forecast-content\">">>
                \o FlatMap(d["forecast_changes"], HtmlChangeLines)
                \o <<"  </div>">>
           ELSE <<>>
      [] b = "temperature_forecast" ->
           IF NonEmptyDict(d, "temperature_forecast")
           THEN <<SectionLine("&#127777;&#65039;", "TEMPERATURE FORECAST"),
                  "  <div class=\"forecast-content\">">>
                \o MapSeq(Get(d["temperature_forecast"], "max_temperature", <<>>),
                          LAMBDA t : LabelLine("    ", "Maximum",
                                               "&#127777;&#65039; " \o ToString(t["value"])
                                               \o "&#176;C at " \o t["time"] \o "Z"))
                \o MapSeq(Get(d["temperature_forecast"], "min_temperature", <<>>),
                          LAMBDA t : LabelLine("    ", "Minimum",
                                               "&#127777;&#65039; " \o ToString(t["value"])
                                               \o "&#176;C at " \o t["time"] \o "Z"))
                \o <<"  </div>">>
           ELSE <<>>
      [] b = "qnh_forecast" ->
           IF NonEmptySeq(d, "qnh_forecast")
           THEN <<SectionLine("&#128317;", "PRESSURE FORECAST"),
                  "  <div class=\"forecast-content\">">>
                \o FlatMap(d["qnh_forecast"],
                           LAMBDA qnh, i : <<"    <p>" \o ToString(i)
                                             \o ". <span class=\"label\">QNH:</span> &#128317; "
                                             \o FloatStr(qnh["value"]) \o " " \o qnh["unit"]
                                             \o "</p>">>)
                \o <<"  </div>">>
           ELSE <<>>
      [] b = "remarks" ->
           IF NonEmptyStr(d, "remarks") THEN <<LabelLine("  ", "Remarks", d["remarks"])>>
           ELSE <<>>
      [] b = "parse_error" ->
           IF Has(d, "parse_error") THEN <<LabelLine("  ", "Parse Error", d["parse_error"])>>
           ELSE <<>>

\* the try body of a TAF formatter from block k on, with the block f failing (0: none)
RECURSIVE TafLinesFrom(_, _, _, _, _)
TafLinesFrom(k, f, d, lines, html) ==
    IF k > Len(TafFormatBlocks) THEN [failed |-> FALSE, lines |-> lines]
    ELSE IF k = f THEN [failed |-> TRUE, lines |-> lines]
    ELSE TafLinesFrom(k + 1, f, d,
                      lines \o (IF html THEN TafHtmlBlock(TafFormatBlocks[k], d)
                                ELSE TafTextBlock(TafFormatBlocks[k], d)), html)

\* the handler of _format_taf_html (taf_parser.py 767-768)
HtmlFormatErrorHandler(lines) ==
    Append(lines, LabelLine("  ", "Formatting Error", FormatErrorText))

\* the lines _format_taf_text has when it leaves the try, the block f failing
TafTextLines(d, f) == EndOfFormatTry(TafLinesFrom(1, f, d, <<>>, FALSE))

\* how the try of _format_taf_html ends
EndOfHtmlTry(try) == IF try.failed THEN HtmlFormatErrorHandler(try.lines) ELSE try.lines

\* the lines _format_taf_html joins (taf_parser.py 533-535, 767-771): the opening tag and
\* the style sheet come before the try, the closing tag after it
TafHtmlLines(d, f) ==
    EndOfHtmlTry(TafLinesFrom(1, f, d, <<"<div class=\"taf-report\">", _get_taf_css>>, TRUE))
    \o <<"</div>">>

\* _format_taf_text (taf_parser.py 774-999)
_format_taf_text(d, eol, f) == JoinLines(eol, TafTextLines(d, f))

\* _format_taf_html (taf_parser.py 531-771)
_format_taf_html(d, f) == Returned(Join(TafHtmlLines(d, f), "\n"))

\* "if is_html:" for the values a caller passes
IsHtml(v) == v.t = "bool" /\ v.b

\* format_taf called with the report r and the further arguments of call, the block f
\* failing: how the call ends (taf_parser.py 1002-1026)
format_taf(r, call, f) ==
    IF ~BindsArguments(TafFormatParams, call) THEN Raised("TypeError")
    ELSE IF ~IsNonEmptyDict(r) THEN Returned("Invalid TAF data")
    ELSE IF IsHtml(call.is_html) THEN _format_taf_html(r.d, f)
    ELSE _format_taf_text(r.d, IF call.eol.t = "absent" THEN DefaultEol ELSE call.eol, f)

-----------------------------------------------------------------------------
(* The runs: a caller hands a value to a parser, and the report to the     *)
(* formatter of the same decoder; or it hands a report of its own to the   *)
(* formatter.  Everything a run chooses is chosen in its initial state.    *)

NotCalled == [kind |-> "none"]
NoArg == [t |-> "absent"]
NoReport == [t |-> "absent"]
NoHass == [t |-> "absent"]

\* format_x(report): no further argument, nothing made to fail
DefaultOpts == [call |-> [eol |-> Absent, is_html |-> Absent], fault |-> 0]

Str(s) == [t |-> "str", s |-> s]
Dict(d) == [t |-> "dict", d |-> d]

\* all tuples over V of at most n elements
SeqsUpTo(V, n) == UNION {[1..k -> V] : k \in 0..n}

\* a run that decodes: parse, then format what the parser returned
DecodeRun(k, a, f, o) ==
    /\ kind = k /\ pc = "parse" /\ arg = a /\ fault = f /\ opts = o
    /\ pres = NotCalled /\ report = NoReport /\ fres = NotCalled /\ hass = NoHass

\* a run that formats a report the caller built
FormatRun(k, r, o) ==
    /\ kind = k /\ pc = "format" /\ arg = NoArg /\ fault = 0 /\ opts = o
    /\ pres = NotCalled /\ report = r /\ fres = NotCalled /\ hass = NoHass

\* the call parse_metar(arg) (metar_parser.py 80-399); the coordinator hands the result
\* to format_metar (__init__.py 155-161)
ParseMetar ==
    /\ pc = "parse" /\ kind = "metar"
    /\ pres' = parse_metar(arg, fault)
    /\ report' = Dict(pres'.value)
    /\ pc' = "format"
    /\ UNCHANGED <<kind, arg, fault, opts, fres, hass>>

\* the call parse_taf(arg) (taf_parser.py 191-366)
ParseTaf ==
    /\ pc = "parse" /\ kind = "taf"
    /\ pres' = parse_taf(arg, fault)
    /\ report' = Dict(pres'.value)
    /\ pc' = "format"
    /\ UNCHANGED <<kind, arg, fault, opts, fres, hass>>

\* the call format_metar(report, ...) (metar_parser.py 402-655)
FormatMetar ==
    /\ pc = "format" /\ kind = "metar"
    /\ fres' = format_metar(report, opts.call, opts.fault)
    /\ pc' = "done"
    /\ UNCHANGED <<kind, arg, fault, pres, report, opts, hass>>

\* the call format_taf(report, ...) (taf_parser.py 1002-1026)
FormatTaf ==
    /\ pc = "format" /\ kind = "taf"
    /\ fres' = format_taf(report, opts.call, opts.fault)
    /\ pc' = "done"
    /\ UNCHANGED <<kind, arg, fault, pres, report, opts, hass>>

Next == ParseMetar \/ ParseTaf \/ FormatMetar \/ FormatTaf

-----------------------------------------------------------------------------
(* The integration (__init__.py) and the formatted sensors (sensor.py)     *)

\* Python's None as a returned value
NoneValue == [t |-> "none"]

\* format_x(report, is_html=b), as the coordinator calls the formatters
HtmlCall(b) == [eol |-> Absent, is_html |-> [t |-> "bool", b |-> b]]

\* what the request for one aerodrome can end in: a status other than 200, an empty JSON
\* list, a client error, another exception, or a JSON list whose first element is a
\* record without reports, with an empty rawOb, with a rawOb, or with a rawOb and a rawTaf
Failures == {"status", "no_data", "client_error", "error"}
Outcomes == Failures \cup {"bare", "blank", "metar", "both"}

\* the first element of the JSON list (json_data[0]) for the aerodrome
Payload(aerodrome, outcome) ==
    CASE outcome = "bare" -> [icaoId |-> aerodrome]
      [] outcome = "blank" -> [icaoId |-> aerodrome, rawOb |-> ""]
      [] outcome = "metar" ->
           [icaoId |-> aerodrome,
            rawOb |-> aerodrome \o " 021420Z 9999"]
      [] OTHER ->
           [icaoId |-> aerodrome,
            rawOb |-> aerodrome \o " 021420Z 9999",
            rawTaf |-> aerodrome \o " 121100Z 1212/1318 9999"]

\* the inner try of a report block (__init__.py 159-171, 189-201): the two renderings
\* are stored when both format calls return, else the parsed report is flagged
WithFormatted(data, name, text, html) ==
    IF text.kind = "raised" \/ html.kind = "raised"
    THEN Put(data, "parsed_" \o name, Put(data["parsed_" \o name], "_format_error", TRUE))
    ELSE Put(Put(data, "formatted_" \o name \o "_text", text.value),
             "formatted_" \o name \o "_html", html.value)

\* __init__.py 152-179: parse_metar, then format_metar(parsed_metar, is_html=...)
WithParsedMetar(data, parsed) ==
    IF parsed.kind = "raised" THEN data
    ELSE WithFormatted(Put(data, "parsed_metar", parsed.value), "metar",
                       format_metar(Dict(parsed.value), HtmlCall(FALSE), 0),
                       format_metar(Dict(parsed.value), HtmlCall(TRUE), 0))

MetarFields(data) ==
    IF NonEmptyStr(data, "rawOb") THEN WithParsedMetar(data, parse_metar(Str(data["rawOb"]), 0))
    ELSE data

\* __init__.py 182-209: parse_taf, then format_taf(parsed_taf, is_html=...)
WithParsedTaf(data, parsed) ==
    IF parsed.kind = "raised" THEN data
    ELSE WithFormatted(Put(data, "parsed_taf", parsed.value), "taf",
                       format_taf(Dict(parsed.value), HtmlCall(FALSE), 0),
                       format_taf(Dict(parsed.value), HtmlCall(TRUE), 0))

TafFields(data) ==
    IF NonEmptyStr(data, "rawTaf") THEN WithParsedTaf(data, parse_taf(Str(data["rawTaf"]), 0))
    ELSE data

\* _fetch_metar_data(aerodrome) when the request ends in outcome (__init__.py 126-218)
_fetch_metar_data(aerodrome, outcome) ==
    IF outcome \in Failures THEN Returned(NoneValue)
    ELSE Returned(Dict(TafFields(MetarFields(Payload(aerodrome, outcome)))))

\* a loop in which a failed request would discard the records gathered so far
FetchedOrDiscarded(run, aerodrome, fetch) ==
    IF fetch.kind = "returned" /\ IsNonEmptyDict(fetch.value)
    THEN [all_data |-> Put(run.all_data, aerodrome, fetch.value.d),
          fetched |-> Append(run.fetched, aerodrome)]
    ELSE [all_data |-> EmptyDict, fetched |-> Append(run.fetched, aerodrome)]

\* one turn of the loop of _async_update_data (__init__.py 108-119); run holds all_data
\* and the aerodromes requested so far
Fetched(run, aerodrome, fetch) ==
    IF fetch.kind = "returned" /\ IsNonEmptyDict(fetch.value)
    THEN [all_data |-> Put(run.all_data, aerodrome, fetch.value.d),
          fetched |-> Append(run.fetched, aerodrome)]
    ELSE [run EXCEPT !.fetched = Append(run.fetched, aerodrome)]

\* the loop over self.aerodromes from the k-th on (__init__.py 107-119)
RECURSIVE FetchFrom(_, _, _, _)
FetchFrom(k, aerodromes, outcome, run) ==
    IF k > Len(aerodromes) THEN run
    ELSE FetchFrom(k + 1, aerodromes, outcome,
                   Fetched(run, aerodromes[k],
                           _fetch_metar_data(aerodromes[k], outcome[aerodromes[k]])))

\* __init__.py 121-124
UpdateResult(all_data) ==
    IF DOMAIN all_data = {} THEN Raised("UpdateFailed") ELSE Returned(all_data)

\* the call of _async_update_data once its loop has run: whose coordinator, how the
\* requests ended, the aerodromes requested in order, and how the call ended
UpdateEnd(e, outcome, run) ==
    [kind |-> "update", entry |-> e, outcome |-> outcome, fetched |-> run.fetched,
     result |-> UpdateResult(run.all_data)]

\* _async_update_data of the coordinator of entry e for aerodromes, the requests ending
\* as outcome says (__init__.py 103-124)
_async_update_data(e, aerodromes, outcome) ==
    UpdateEnd(e, outcome,
              FetchFrom(1, aerodromes, outcome, [all_data |-> EmptyDict, fetched |-> <<>>]))

\* the elements of a list
Range(xs) == {xs[i] : i \in 1..Len(xs)}

\* the config entries and the aerodromes each is configured for (entry.data)
MaxEntries == 3
EntryId(i) == "entry_" \o ToString(i)
Entries == {EntryId(i) : i \in 1..MaxEntries}
Aerodromes(e) == IF e = EntryId(2) THEN <<"KJFK">> ELSE <<"EGLL", "KJFK">>

\* no entry: no handler registered, no refresh requested
NoEntry == NoneStr
NoRead == [kind |-> "none"]

\* a coordinator after a refresh that ended as u: the data are replaced when the update
\* returned, else kept, and last_update_success says which
Refreshed(c, u) ==
    IF u.result.kind = "returned"
    THEN [c EXCEPT !.data = Dict(u.result.value), !.last_update_success = TRUE]
    ELSE [c EXCEPT !.last_update_success = FALSE]

\* AviationWeatherDataUpdateCoordinator(...) (__init__.py 85-101)
Coordinator(e) == [aerodromes |-> Aerodromes(e), data |-> NoneValue, last_update_success |-> TRUE]

\* async_setup_entry once the first refresh has ended as u (__init__.py 45-65): a failed
\* first refresh ends the setup before anything is stored
SetUp(h, e, u) ==
    IF u.result.kind = "raised" THEN [h EXCEPT !.update = u, !.requested = NoEntry, !.read = NoRead]
    ELSE [loaded |-> h.loaded \cup {e}, data |-> Put(h.data, e, Refreshed(Coordinator(e), u)),
          service |-> e, requested |-> NoEntry, update |-> u, read |-> NoRead]

\* async_setup_entry(hass, entry) (__init__.py 31-65)
async_setup_entry(e, outcomes) ==
    /\ kind = "hass" /\ e \notin hass.loaded
    /\ \E outcome \in [Range(Aerodromes(e)) -> outcomes] :
          hass' = SetUp(hass, e, _async_update_data(e, Aerodromes(e), outcome))
    /\ UNCHANGED <<kind, pc, arg, fault, pres, report, opts, fres>>

\* hass.data[DOMAIN].pop(entry.entry_id)
Pop(d, k) == [x \in DOMAIN d \ {k} |-> d[x]]

\* an unload that would leave the service registered
UnloadedKeepingService(h, e, unload_ok) ==
    IF ~unload_ok THEN [h EXCEPT !.requested = NoEntry, !.read = NoRead]
    ELSE [h EXCEPT !.loaded = h.loaded \ {e}, !.data = Pop(h.data, e),
                   !.requested = NoEntry, !.read = NoRead]

\* async_unload_entry once the platforms have unloaded or not (__init__.py 72-79)
Unloaded(h, e, unload_ok) ==
    IF ~unload_ok THEN [h EXCEPT !.requested = NoEntry, !.read = NoRead]
    ELSE [h EXCEPT !.loaded = h.loaded \ {e}, !.data = Pop(h.data, e),
                   !.service = IF DOMAIN Pop(h.data, e) = {} THEN NoEntry ELSE h.service,
                   !.requested = NoEntry, !.read = NoRead]

\* async_unload_entry(hass, entry) (__init__.py 68-79)
async_unload_entry(e) ==
    /\ kind = "hass" /\ e \in hass.loaded
    /\ \E unload_ok \in BOOLEAN : hass' = Unloaded(hass, e, unload_ok)
    /\ UNCHANGED <<kind, pc, arg, fault, pres, report, opts, fres>>

\* a refresh of the coordinator of entry e that ended as u: the coordinator is the object
\* the caller holds, stored in hass.data or not
RefreshOf(h, e, u) ==
    IF Has(h.data, e) THEN [h EXCEPT !.data = Put(h.data, e, Refreshed(h.data[e], u))] ELSE h

\* the integration after the coordinator of entry e was refreshed with the end u, on a
\* request of the service (requested = e) or at its interval (requested = NoEntry)
AfterRefresh(h, e, u, requested) ==
    [RefreshOf(h, e, u) EXCEPT !.requested = requested, !.update = u, !.read = NoRead]

\* handle_refresh(call) of the registered service (__init__.py 53-56): the handler
\* registered last, which refreshes the coordinator of the setup that registered it
handle_refresh(outcomes) ==
    /\ kind = "hass" /\ hass.service # NoEntry
    /\ \E outcome \in [Range(Aerodromes(hass.service)) -> outcomes] :
          hass' = AfterRefresh(hass, hass.service,
                               _async_update_data(hass.service, Aerodromes(hass.service), outcome),
                               hass.service)
    /\ UNCHANGED <<kind, pc, arg, fault, pres, report, opts, fres>>

\* the refresh of a stored coordinator at its update interval (__init__.py 96-124)
UpdateData(e, outcomes) ==
    /\ kind = "hass" /\ Has(hass.data, e)
    /\ \E outcome \in [Range(Aerodromes(e)) -> outcomes] :
          hass' = AfterRefresh(hass, e, _async_update_data(e, Aerodromes(e), outcome), NoEntry)
    /\ UNCHANGED <<kind, pc, arg, fault, pres, report, opts, fres>>

\* the sensor keys of the formatted METAR sensors (sensor.py 342-359)
MetarSensorKeys == {"metar_readable_text", "metar_readable_html", "metar_readable_html_rich"}

\* the stored rendering the sensor key asks for (sensor.py 899-904)
StoredRendering(aerodrome_data, sensor_key) ==
    IF Contains(sensor_key, "html_rich") THEN Get(aerodrome_data, "formatted_metar_html_rich", NoneStr)
    ELSE IF Contains(sensor_key, "html") THEN Get(aerodrome_data, "formatted_metar_html", NoneStr)
    ELSE Get(aerodrome_data, "formatted_metar_text", NoneStr)

\* the format call of the fallback (sensor.py 911-917)
FallbackCall(sensor_key) ==
    IF Contains(sensor_key, "html_rich") THEN [eol |-> Str("<br>"), is_html |-> [t |-> "bool", b |-> TRUE]]
    ELSE IF Contains(sensor_key, "html") THEN [eol |-> Str("<br>"), is_html |-> [t |-> "bool", b |-> FALSE]]
    ELSE [eol |-> Str("\n"), is_html |-> [t |-> "bool", b |-> FALSE]]

\* "N chars" for a rendering, "Format error" when the call raised (sensor.py 907-920)
CharCount(text) == ToString(Len(text)) \o " chars"

FallbackState(result) ==
    IF result.kind = "raised" THEN "Format error" ELSE CharCount(result.value)

\* sensor.py 889-920, for the record of the aerodrome
MetarFormattedState(aerodrome_data, sensor_key, formatted) ==
    IF ~Has(aerodrome_data, "parsed_metar") THEN "Parse failed"
    ELSE IF IsTrue(aerodrome_data["parsed_metar"], "_format_error") THEN "Format failed"
    ELSE IF formatted # NoneStr /\ formatted # "" THEN CharCount(formatted)
    ELSE FallbackState(format_metar(Dict(aerodrome_data["parsed_metar"]),
                                    FallbackCall(sensor_key), 0))

\* FormattedSensor.native_value of a METAR sensor (sensor.py 877-920); data is
\* coordinator.data
native_value(data, aerodrome, sensor_key) ==
    IF ~IsNonEmptyDict(data) THEN NoneStr
    ELSE IF ~Has(data.d, aerodrome) THEN NoneStr
    ELSE MetarFormattedState(data.d[aerodrome], sensor_key,
                             StoredRendering(data.d[aerodrome], sensor_key))

\* Home Assistant reads the state of a formatted METAR sensor of a loaded entry
ReadSensor(e) ==
    /\ kind = "hass" /\ e \in hass.loaded
    /\ \E a \in Range(Aerodromes(e)), k \in MetarSensorKeys :
          hass' = [hass EXCEPT !.requested = NoEntry,
                               !.read = [kind |-> "read", entry |-> e, aerodrome |-> a,
                                         sensor_key |-> k,
                                         value |-> native_value(hass.data[e].data, a, k)]]
    /\ UNCHANGED <<kind, pc, arg, fault, pres, report, opts, fres>>

\* Home Assistant started, no entry set up yet
InitHass ==
    /\ kind = "hass" /\ pc = "idle" /\ arg = NoArg /\ fault = 0 /\ opts = DefaultOpts
    /\ pres = NotCalled /\ report = NoReport /\ fres = NotCalled
    /\ hass = [loaded |-> {}, data |-> EmptyDict, service |-> NoEntry, requested |-> NoEntry,
               update |-> NotCalled, read |-> NoRead]

-----------------------------------------------------------------------------
(* Spec: the entry points called with any kind of value                    *)

\* values a caller can hand to a parser
MetarSample == "SPECI EGLL 021420Z AUTO 24010G25KT 9999 -RA BKN050 12/08 Q1013 NOSIG RMK AO2 SLP134"
TafSample == "TAF AMD EGLL 121100Z 1212/1318 24010KT 9999 BKN050 TEMPO 1214/1218 4000 RA TX12/1214Z RMK NXT"
NonStrings == {[t |-> "none"], [t |-> "int", n |-> 0], [t |-> "int", n |-> 7], [t |-> "list"]}
MetarArgs == {Str(""), Str(" "), Str("EGLL"), Str(MetarSample)} \cup NonStrings
TafArgs == {Str(""), Str(" "), Str("EGLL"), Str(TafSample)} \cup NonStrings

\* values a caller can hand to a formatter as the report
NonMappings == {[t |-> "none"], [t |-> "str", s |-> "EGLL"], [t |-> "list"]}
MetarReports ==
    NonMappings \cup {Dict(EmptyDict), Dict([parse_error |-> ParseErrorText]),
                      Dict([station_id |-> "EGLL", cavok |-> TRUE, visibility |-> "CAVOK"]),
                      Dict(parse_metar(Str(MetarSample), 0).value)}
TafReports ==
    NonMappings \cup {Dict(EmptyDict), Dict([parse_error |-> ParseErrorText]),
                      Dict([station_id |-> "EGLL", is_amended |-> TRUE]),
                      Dict(parse_taf(Str(TafSample), 0).value)}

\* the further arguments of a format call
EolValues == {Absent, Str("\n"), Str("<br>"), [t |-> "none"]}
HtmlValues == {Absent, [t |-> "bool", b |-> FALSE], [t |-> "bool", b |-> TRUE]}
Calls == [eol : EolValues, is_html : HtmlValues]

Init ==
    \/ \E a \in MetarArgs, f \in 0..Len(MetarBlocks) : DecodeRun("metar", a, f, DefaultOpts)
    \/ \E a \in TafArgs, f \in 0..Len(TafBlocks) : DecodeRun("taf", a, f, DefaultOpts)
    \/ \E r \in MetarReports, c \in Calls, f \in 0..Len(MetarFormatBlocks) :
          FormatRun("metar", r, [call |-> c, fault |-> f])
    \/ \E r \in TafReports, c \in Calls, f \in 0..Len(TafFormatBlocks) :
          FormatRun("taf", r, [call |-> c, fault |-> f])

Spec == Init /\ [][Next]_vars

-----------------------------------------------------------------------------
(* SpecMetar: parse_metar and format_metar on reports put together from     *)
(* tokens                                                                  *)

MaxChunks == 3

\* the tokens a raw METAR is put together from, and what may lead them
MetarChunks == {"CAVOK", "9999", "-RA", "BKN050", "SKC", "RMK", "="}
MetarPrefixes == {"", "EGLL 021420Z "}

InitMetar ==
    \E prefix \in MetarPrefixes, chunks \in SeqsUpTo(MetarChunks, MaxChunks) :
        DecodeRun("metar", Str(prefix \o Join(chunks, " ")), 0, DefaultOpts)

NextMetar == ParseMetar \/ FormatMetar

SpecMetar == InitMetar /\ [][NextMetar]_vars

-----------------------------------------------------------------------------
(* SpecTaf: parse_taf and format_taf on forecasts put together from groups *)

MaxGroups == 3

\* the head of a TAF and the groups that may follow it
TafHead == "EGLL 121100Z 1212/1318"
TafChunks == {"PROB30 TEMPO 1214/1218", "BECMG", "9999", "FM121400", "RMK"}

InitTaf ==
    \E chunks \in SeqsUpTo(TafChunks, MaxGroups) :
        DecodeRun("taf", Str(Join(<<TafHead>> \o chunks, " ")), 0, DefaultOpts)

NextTaf == ParseTaf \/ FormatTaf

SpecTaf == InitTaf /\ [][NextTaf]_vars

-----------------------------------------------------------------------------
(* SpecWind: the parsers on reports with one wind token                    *)

MaxSpeed == 5
MaxGust == 5

\* dddff(Ggg)?UNIT
WindToken(w) ==
    w.direction \o Pad2(w.speed)
    \o (IF w.gust = NoneNum THEN "" ELSE "G" \o Pad2(w.gust[1])) \o w.unit

\* the tokens: where the token stands, and what it is written from
WindTokens ==
    [where : {"metar", "taf", "wind_shear"}, direction : {"240", "VRB"}, speed : 0..MaxSpeed,
     gust : {NoneNum} \cup {Num(g) : g \in 0..MaxGust}, unit : {"KT", "MPS", "KMH"}]

\* the raw report around the token; a wind shear group takes a direction in digits
WindReport(w) ==
    CASE w.where = "metar" -> "EGLL 021420Z " \o WindToken(w)
      [] w.where = "taf" -> TafHead \o " " \o WindToken(w)
      [] w.where = "wind_shear" -> TafHead \o " WS020/" \o WindToken(w)

InitWind ==
    \E w \in WindTokens :
        /\ w.where = "wind_shear" => w.direction # "VRB"
        /\ DecodeRun(IF w.where = "metar" THEN "metar" ELSE "taf",
                     [t |-> "str", s |-> WindReport(w), wind |-> w], 0, DefaultOpts)

SpecWind == InitWind /\ [][Next]_vars

-----------------------------------------------------------------------------
(* SpecOrder: the parsers on reports with several weather, cloud,          *)
(* temperature, pressure and change tokens                                 *)

MaxOrder == 3

OrderTafChunks == {"VCSH", "-RA", "BR", "NSW", "BKN020", "SCT010CB", "TX12/1214Z",
                   "TXM02/1304Z", "QNH2992INS", "QNH3001INS", "TEMPO 1214/1218",
                   "BECMG 1216/1218"}
OrderMetarChunks == {"-RA", "BR", "+TSRA", "BKN020", "OVC050", "9999"}

InitOrder ==
    \/ \E chunks \in SeqsUpTo(OrderTafChunks, MaxOrder) :
          DecodeRun("taf", Str(Join(<<TafHead>> \o chunks, " ")), 0, DefaultOpts)
    \/ \E chunks \in SeqsUpTo(OrderMetarChunks, MaxOrder) :
          DecodeRun("metar", Str(Join(<<"EGLL 021420Z">> \o chunks, " ")), 0, DefaultOpts)

SpecOrder == InitOrder /\ [][Next]_vars

-----------------------------------------------------------------------------
(* SpecTrend: parse_metar and format_metar on observations followed by a   *)
(* trend or remarks                                                        *)

MaxTrend == 3

TrendChunks == {"-RA", "BKN020", "OVC010", "CAVOK", "TEMPO", "BECMG", "NOSIG", "RMK"}

InitTrend ==
    \E chunks \in SeqsUpTo(TrendChunks, MaxTrend) :
        DecodeRun("metar", Str(Join(<<"EGLL 021420Z 9999">> \o chunks, " ")), 0, DefaultOpts)

SpecTrend == InitTrend /\ [][NextMetar]_vars

-----------------------------------------------------------------------------
(* SpecSlp: parse_metar and format_metar on reports with an SLP remark     *)

\* how far around 000, 700 and 999 the three digits of the remark are taken
SlpWindow == 20

SlpValues ==
    (0..SlpWindow) \cup ((700 - SlpWindow)..(700 + SlpWindow)) \cup ((999 - SlpWindow)..999)
    \cup {134, 876}

SlpReport(v) ==
    "KJFK 021451Z 10SM RMK AO2 SLP" \o (IF v < 100 THEN "0" \o Pad2(v) ELSE ToString(v))

InitSlp ==
    \E v \in SlpValues :
        DecodeRun("metar", [t |-> "str", s |-> SlpReport(v), slp |-> v], 0, DefaultOpts)

SpecSlp == InitSlp /\ [][NextMetar]_vars

-----------------------------------------------------------------------------
(* SpecFields: parse_metar and format_metar on well-formed observations    *)
(* <station> <DDHHMM>Z AUTO <wind> <dddVddd> <visibility> <cloud> <TT/DD>  *)
(* <Qnnnn>                                                                 *)

\* what each token is written from
FieldChoices ==
    [station : {"EGLL", "KJFK"}, direction : {"350", "000"}, speed : {"04", "00"},
     from : {"300", "010"}, to : {"040", "090"}, visibility : {"9999", "0800"},
     cloud : {"SCT", "OVC"}, height : {"024", "003"}, temp : {"12", "M02"},
     dewp : {"06", "M05"}, qnh : {"1035", "0998"}]

FieldsReport(f) ==
    Join(<<f.station, "021420Z", "AUTO", f.direction \o f.speed \o "KT",
           f.from \o "V" \o f.to, f.visibility, f.cloud \o f.height,
           f.temp \o "/" \o f.dewp, "Q" \o f.qnh>>, " ")

InitFields ==
    \E f \in FieldChoices :
        DecodeRun("metar", [t |-> "str", s |-> FieldsReport(f), fields |-> f], 0, DefaultOpts)

SpecFields == InitFields /\ [][NextMetar]_vars

-----------------------------------------------------------------------------
(* SpecTempo: parse_taf and format_taf on a base block followed by one     *)
(* TEMPO group; "" stands for a token that is left out                     *)

TempoChoices ==
    [wind : {"35010KT", ""}, visibility : {"9999", ""}, weather : {"-SHRA", ""},
     cloud : {"SCT025", ""}, period : {"1214/1218", "1300/1306"},
     tempo_wind : {"25015KT", ""}, tempo_visibility : {"4000", ""},
     tempo_weather : {"RA", ""}, tempo_cloud : {"BKN012", ""}]

Written(tokens) == SelectSeq(tokens, LAMBDA t : t # "")

TempoReport(f) ==
    Join(Written(<<TafHead, f.wind, f.visibility, f.weather, f.cloud, "TEMPO", f.period,
                   f.tempo_wind, f.tempo_visibility, f.tempo_weather, f.tempo_cloud>>), " ")

InitTempo ==
    \E f \in TempoChoices :
        DecodeRun("taf", [t |-> "str", s |-> TempoReport(f), fields |-> f], 0, DefaultOpts)

SpecTempo == InitTempo /\ [][NextTaf]_vars

-----------------------------------------------------------------------------
(* SpecVisibility: parse_metar and format_metar on observations with a     *)
(* visibility in statute miles or in meters                                *)

VisibilityChoices ==
    [time : {"021451Z", "101000Z"},
     wind : [direction : {"140", "VRB"}, speed : {"12", "03"}, gust : {"", "20"}],
     visibility : {"10SM", "2SM", "3/4SM", "1/4SM", "1 1/2SM", "9999", "0800"},
     rest : {"", "FEW250", "12/06 A2992"}]

VisibilityReport(f) ==
    Join(Written(<<"KJFK", f.time,
                   f.wind.direction \o f.wind.speed
                   \o (IF f.wind.gust = "" THEN "" ELSE "G" \o f.wind.gust) \o "KT",
                   f.visibility, f.rest>>), " ")

InitVisibility ==
    \E f \in VisibilityChoices :
        DecodeRun("metar", [t |-> "str", s |-> VisibilityReport(f), fields |-> f], 0,
                  DefaultOpts)

SpecVisibility == InitVisibility /\ [][NextMetar]_vars

-----------------------------------------------------------------------------
(* SpecTemperature: parse_metar and format_metar on observations with      *)
(* runway visual ranges before the temperature group                       *)

TemperatureChoices ==
    [rvr : {"", "R27/1200", "R09L/P1500U", "R27/1200 R09/0800"}, cloud : {"", "BKN020"},
     temp : {"12", "05", "M02"}, dewp : {"06", "M05"}, rest : {"", "Q1035"}]

TemperatureReport(f) ==
    Join(Written(<<"EGLL 021420Z 35004KT 9999", f.rvr, f.cloud, f.temp \o "/" \o f.dewp,
                   f.rest>>), " ")

InitTemperature ==
    \E f \in TemperatureChoices :
        DecodeRun("metar", [t |-> "str", s |-> TemperatureReport(f), fields |-> f], 0,
                  DefaultOpts)

SpecTemperature == InitTemperature /\ [][NextMetar]_vars

-----------------------------------------------------------------------------
(* SpecTafWeather: parse_taf and format_taf on forecasts whose station     *)
(* identifier may end in the letters of a weather code                     *)

TafWeatherChoices ==
    [lead : {"", "TAF", "TAF AMD"}, station : {"EGLL", "KJFK", "EGSS", "LFBR"},
     weather : {"", "-RA", "+TSRA", "BR"},
     change : [text : {""}, weather : {""}]
              \cup [text : {"BECMG 1214/1216"}, weather : {"FG"}]
              \cup [text : {"TEMPO 1214/1218"}, weather : {"-SHRA", ""}]]

TafWeatherReport(f) ==
    Join(Written(<<f.lead, f.station, "121100Z 1212/1318 35010KT 9999", f.weather, "SCT025",
                   f.change.text, IF f.change.text = "" THEN "" ELSE "4000",
                   f.change.weather>>), " ")

InitTafWeather ==
    \E f \in TafWeatherChoices :
        DecodeRun("taf", [t |-> "str", s |-> TafWeatherReport(f), fields |-> f], 0,
                  DefaultOpts)

SpecTafWeather == InitTafWeather /\ [][NextTaf]_vars

-----------------------------------------------------------------------------
(* SpecKinds: parse_taf and format_taf on forecasts with change groups of  *)
(* every kind                                                              *)

MaxKinds == 3

KindChunks == {"TEMPO 1214/1218", "BECMG 1216/1218", "PROB30 1300/1306",
               "PROB40 TEMPO 1306/1312", "FM121400", "4000", "BECMG"}

InitKinds ==
    \E chunks \in SeqsUpTo(KindChunks, MaxKinds) :
        DecodeRun("taf", Str(Join(<<TafHead, "9999">> \o chunks, " ")), 0, DefaultOpts)

SpecKinds == InitKinds /\ [][NextTaf]_vars

-----------------------------------------------------------------------------
(* SpecTafVisibility: parse_taf and format_taf on forecasts whose          *)
(* visibility stands next to validity windows, TX times, FM times and QNH  *)

TafVisibilities == {"", "9999", "2SM", "1/2SM", "1 1/2SM", "P6SM"}

TafVisibilityChoices ==
    [wind : {"", "35010KT"}, visibility : TafVisibilities,
     tx : {"", "TX12/1214Z"}, qnh : {"", "QNH2992INS"},
     change : [text : {""}, wind : {""}, visibility : {""}]
              \cup [text : {"TEMPO 1214/1218", "BECMG 1216/1218", "FM121400"},
                    wind : {"", "25010KT"}, visibility : TafVisibilities]]

TafVisibilityReport(f) ==
    Join(Written(<<"KJFK 121100Z 1212/1318", f.wind, f.visibility, f.change.text,
                   f.change.wind, f.change.visibility, f.tx, f.qnh>>), " ")

InitTafVisibility ==
    \E f \in TafVisibilityChoices :
        DecodeRun("taf", [t |-> "str", s |-> TafVisibilityReport(f), fields |-> f], 0,
                  DefaultOpts)

SpecTafVisibility == InitTafVisibility /\ [][NextTaf]_vars

-----------------------------------------------------------------------------
(* SpecSymbol: parse_taf and the HTML format_taf on forecasts with several *)
(* weather tokens                                                          *)

MaxWeather == 2
SymbolTokens == {"-RA", "RA", "SN", "BR", "FG", "TSRA", "+TSRA", "FZRA", "FZDZ"}
HtmlOpts == [call |-> [eol |-> Absent, is_html |-> [t |-> "bool", b |-> TRUE]], fault |-> 0]

InitSymbol ==
    \E tokens \in SeqsUpTo(SymbolTokens, MaxWeather) :
        DecodeRun("taf",
                  Str(Join(<<"KJFK 121100Z 1212/1318 35010KT 6SM">> \o tokens \o <<"BKN020">>,
                           " ")),
                  0, HtmlOpts)

SpecSymbol == InitSymbol /\ [][NextTaf]_vars

-----------------------------------------------------------------------------
(* SpecVariation: parse_metar and format_metar on observations with and   *)
(* without a wind token and a wind variation token                         *)

VariationChoices ==
    [station : {"EGLL", "KJFK"},
     wind : {"", "24010KT", "24010G25KT", "VRB03KT", "00000KT", "10005MPS"},
     variation : {"", "180V240", "350V040"}, visibility : {"", "9999", "CAVOK"}]

VariationReport(f) ==
    Join(Written(<<f.station, "021420Z", f.wind, f.variation, f.visibility, "12/08",
                   "Q1013">>), " ")

InitVariation ==
    \E f \in VariationChoices :
        DecodeRun("metar", [t |-> "str", s |-> VariationReport(f), fields |-> f], 0,
                  DefaultOpts)

SpecVariation == InitVariation /\ [][NextMetar]_vars

-----------------------------------------------------------------------------
(* SpecFlags: parse_taf and format_taf on texts put together from the      *)
(* words of the amendment, correction, automation and suspension flags     *)

MaxFlags == 3
FlagChunks == {"TAF", "AMD", "COR AUTO", "NIL TAF", "NOT SKED", "KJFK 121100Z 1212/1318 9999"}

InitFlags ==
    \E chunks \in SeqsUpTo(FlagChunks, MaxFlags) :
        DecodeRun("taf", Str(Join(chunks, " ")), 0, DefaultOpts)

SpecFlags == InitFlags /\ [][NextTaf]_vars

-----------------------------------------------------------------------------
(* SpecUpdate: one config entry is set up, its coordinator is refreshed at *)
(* its interval with requests that end in every way, and the states of its *)
(* formatted METAR sensors are read                                        *)

UpdateOutcomes == {"status", "bare", "metar", "both"}

NextUpdate ==
    \/ async_setup_entry(EntryId(1), UpdateOutcomes)
    \/ UpdateData(EntryId(1), UpdateOutcomes)
    \/ ReadSensor(EntryId(1))

SpecUpdate == InitHass /\ [][NextUpdate]_vars

-----------------------------------------------------------------------------
(* SpecEntries: config entries are set up and unloaded, their coordinators *)
(* refreshed at their intervals, and the refresh service is called         *)

EntryOutcomes == {"status", "bare"}

NextEntries ==
    \/ \E e \in Entries :
          \/ async_setup_entry(e, EntryOutcomes)
          \/ async_unload_entry(e)
          \/ UpdateData(e, EntryOutcomes)
    \/ handle_refresh(EntryOutcomes)

SpecEntries == InitHass /\ [][NextEntries]_vars

-----------------------------------------------------------------------------
(* Properties                                                              *)

\* what the claims call an empty or non-string input, and an empty or non-mapping report
EmptyOrNonString(a) == a.t # "str" \/ a.s = ""
EmptyOrNonMapping(r) == r.t # "dict" \/ DOMAIN r.d = {}

\* the try body of the parser of this run on its input: whether the block `fault`
\* raised, and the report built up to there
TryOutcome ==
    IF kind = "metar" THEN MetarBlocksFrom(1, fault, arg.s, EmptyDict)
    ELSE TafBlocksFrom(1, fault, arg.s, EmptyDict)

\* C1: parse_metar and parse_taf return a report and never raise, for any string, the
\* empty string and non-strings; when an internal step fails, every field extracted
\* before the failure is in the returned report with its value, and so is a parse_error
\* note.
C1_ParsersNeverRaise ==
    (pc # "parse" /\ arg # NoArg) =>
        /\ pres.kind = "returned"
        /\ (~EmptyOrNonString(arg) /\ TryOutcome.failed) =>
              /\ \A k \in DOMAIN TryOutcome.d :
                    Has(pres.value, k) /\ pres.value[k] = TryOutcome.d[k]
              /\ Has(pres.value, "parse_error")

\* a parser returned after a step failed, with a field it had extracted before
C1_Witness ==
    /\ pc # "parse" /\ arg # NoArg /\ ~EmptyOrNonString(arg) /\ fault > 0
    /\ pres.kind = "returned"
    /\ Has(pres.value, "parse_error") /\ Has(pres.value, "station_id")

\* C2: for every non-empty raw string, format_metar(parse_metar(raw)) does not raise and
\* returns a non-empty string; the parsed report is not empty, so the string is not the
\* one for invalid data.
C2_DecodedMetarIsText ==
    (kind = "metar" /\ pc = "done" /\ arg # NoArg /\ ~EmptyOrNonString(arg)) =>
        /\ pres.kind = "returned" /\ DOMAIN pres.value # {}
        /\ fres.kind = "returned" /\ fres.value # "" /\ fres.value # "Invalid METAR data"

\* a raw string without one token the parser knows, decoded to text
C2_Witness ==
    /\ kind = "metar" /\ pc = "done" /\ arg = Str("=")
    /\ fres.kind = "returned" /\ fres.value # ""

\* C3 as stated: format_metar(report, eol, html) and format_taf(report, eol, html) never
\* raise, for any report and any option values.
C3_FormatNeverRaises == pc = "done" => fres.kind = "returned"

\* C4: parse_metar and parse_taf of an empty or non-string input return the report with
\* no fields; format_metar and format_taf of an empty or non-mapping report, in a call
\* the signature accepts, return "Invalid METAR data" / "Invalid TAF data".
C4_EmptyInputs ==
    /\ (pc # "parse" /\ arg # NoArg /\ EmptyOrNonString(arg)) => pres = Returned(EmptyDict)
    /\ (pc = "done" /\ EmptyOrNonMapping(report)
        /\ BindsArguments(IF kind = "metar" THEN MetarFormatParams ELSE TafFormatParams,
                          opts.call))
       => fres = Returned(IF kind = "metar" THEN "Invalid METAR data" ELSE "Invalid TAF data")

\* the empty string, parsed to the empty report and formatted to the sentinel
C4_Witness ==
    /\ kind = "taf" /\ pc = "done" /\ arg = Str("")
    /\ pres = Returned(EmptyDict) /\ fres = Returned("Invalid TAF data")

\* C5: in every report parse_metar returns, when cavok is set the visibility is exactly
\* "CAVOK" and there is neither a weather list nor a cloud list.
C5_CavokExcludes ==
    (kind = "metar" /\ pc # "parse" /\ Has(pres.value, "cavok")) =>
        /\ Has(pres.value, "visibility") /\ pres.value["visibility"] = "CAVOK"
        /\ ~Has(pres.value, "weather")
        /\ ~Has(pres.value, "clouds")

\* CAVOK in a text that also has a weather token and a cloud token
C5_Witness ==
    /\ kind = "metar" /\ pc # "parse" /\ Has(pres.value, "cavok")
    /\ Contains(arg.s, "-RA") /\ Contains(arg.s, "BKN050")

\* C6: in every report parse_metar returns, when sky_clear is set there is no clouds
\* field, whatever cloud tokens the raw text has.
C6_SkyClearExcludesClouds ==
    (kind = "metar" /\ pc # "parse" /\ Has(pres.value, "sky_clear")) => ~Has(pres.value, "clouds")

\* sky clear found in a text that also has a cloud token
C6_Witness ==
    /\ kind = "metar" /\ pc # "parse" /\ Has(pres.value, "sky_clear")
    /\ Contains(arg.s, "BKN050")

\* round(value x 1.94384), round(value x 0.539957), or the value itself for KT
KnotsOf(v, unit) ==
    CASE unit = "MPS" -> RoundHalfEven(v * 194384, 100000)
      [] unit = "KMH" -> RoundHalfEven(v * 539957, 1000000)
      [] unit = "KT"  -> v

\* the record the parser stored for the wind token of this run
StoredWind ==
    CASE arg.wind.where = "metar" -> pres.value["wind"]
      [] arg.wind.where = "taf" -> pres.value["base_forecast"]["wind"]
      [] arg.wind.where = "wind_shear" -> pres.value["base_forecast"]["wind_shear"]

\* C7 as stated: for every valid wind token (METAR wind, TAF wind, TAF wind shear) the
\* stored speed is the written speed in knots, and whenever the token has a gust group
\* the stored gust is the written gust in knots.
C7_WindInKnots ==
    pc # "parse" =>
        /\ StoredWind.speed = KnotsOf(arg.wind.speed, arg.wind.unit)
        /\ arg.wind.gust # NoneNum =>
              StoredWind.gust = Num(KnotsOf(arg.wind.gust[1], arg.wind.unit))

\* the forecast text parse_taf segments: the raw text without its remarks
TafBody == TafWithoutRemarks(arg.s)

\* the change groups of the report, as format_taf reads them
Changes == Get(pres.value, "forecast_changes", <<>>)

\* C8: for a TAF whose remarks-stripped body has no change indicator (TEMPO, BECMG,
\* PROB30, PROB40, FM and six digits), parse_taf gives no change group (the report has
\* no forecast_changes field, which every reader takes as the empty list) and a base
\* forecast parsed from the whole remarks-stripped body.
C8_NoChangeIndicator ==
    (kind = "taf" /\ pc # "parse" /\ FirstChange(TafBody) = NoMatch) =>
        /\ Changes = <<>>
        /\ pres.value["base_forecast"] = _parse_forecast_group(Strip(TafBody), "BASE")

\* a TAF whose only change keyword stands in the remarks, and whose base has a visibility
C8_Witness ==
    /\ kind = "taf" /\ pc # "parse" /\ FirstChange(TafBody) = NoMatch
    /\ Contains(arg.s, "RMK BECMG")
    /\ Has(pres.value["base_forecast"], "visibility")

\* how often lit occurs in s
Occurrences(s, lit) == Cardinality({p \in 0..(Len(s) - Len(lit)) : Lit(s, p, lit)})

\* how many change groups of the report have this type
GroupsOfType(t) == Cardinality({i \in 1..Len(Changes) : Changes[i].type = t})

\* C9 as stated: every "PROB30 TEMPO" of the forecast text gives exactly one change group
\* of type PROB30 TEMPO, and no PROB30 group or TEMPO group stands for its text (these
\* forecasts have no PROB30 and no TEMPO of their own).
C9_OneGroupPerProbTempo ==
    (kind = "taf" /\ pc # "parse") =>
        /\ GroupsOfType("PROB30 TEMPO") = Occurrences(TafBody, "PROB30 TEMPO")
        /\ GroupsOfType("PROB30") = 0
        /\ GroupsOfType("TEMPO") = 0

\* all_matches after the sort, and filtered_matches, for the forecast text of this run
Candidates ==
    IF FirstChange(TafBody) = NoMatch THEN <<>> ELSE AllMatches(ChangesText(TafBody))
Survivors == FilterOverlaps(Candidates, -1)

Overlap(a, b) == a.start < b.end /\ b.start < a.end
IsKeptIn(kept, c) == \E i \in 1..Len(kept) : kept[i] = c

\* each surviving span starts at or after the end of the one before it
Disjoint(kept) ==
    \A i \in 1..(Len(kept) - 1) :
        /\ kept[i].start < kept[i + 1].start
        /\ kept[i].end <= kept[i + 1].start

\* of two overlapping candidates the earlier-starting is kept, the later-starting is not
EarlierKept(cands, kept) ==
    \A i, j \in 1..Len(cands) :
        (cands[i].start < cands[j].start /\ Overlap(cands[i], cands[j]))
        => (IsKeptIn(kept, cands[i]) /\ ~IsKeptIn(kept, cands[j]))

\* a candidate is discarded exactly when it starts before the end of a surviving
\* candidate that comes before it in start order
DiscardedIffInsideKept(cands, kept) ==
    \A j \in 1..Len(cands) :
        ~IsKeptIn(kept, cands[j]) <=>
            \E i \in 1..(j - 1) :
                IsKeptIn(kept, cands[i]) /\ cands[j].start < cands[i].end

\* a discarded candidate that overlaps a later-starting candidate which survived
LaterKept(cands, kept) ==
    \E i, j \in 1..Len(cands) :
        /\ i < j /\ Overlap(cands[i], cands[j])
        /\ ~IsKeptIn(kept, cands[i]) /\ IsKeptIn(kept, cands[j])

Pad3(n) == IF n < 100 THEN "0" \o Pad2(n) ELSE ToString(n)
Pad4(n) == IF n < 1000 THEN "0" \o Pad3(n) ELSE ToString(n)

\* whether the texts occur in s one after another, from offset p on: texts[i] is the
\* set of spellings the i-th entry may have been written with
RECURSIVE OccurInOrder(_, _, _)
OccurInOrder(s, p, texts) ==
    IF texts = <<>> THEN TRUE
    ELSE LET at == {q \in p..Len(s) : \E w \in texts[1] : Lit(s, q, w)}
         IN  /\ at # {}
             /\ LET q == Least(at)
                    n == Greatest({Len(w) : w \in {v \in texts[1] : Lit(s, q, v)}})
                IN  OccurInOrder(s, q + n, Tail(texts))

NoneAsEmpty(v) == IF v = NoneStr THEN "" ELSE v

\* the spellings of a weather entry; the entry VC SH RA is also what VCSH is stored as
WeatherSpellings(e) ==
    LET text == NoneAsEmpty(Get(e, "intensity", NoneStr))
                \o NoneAsEmpty(Get(e, "descriptor", NoneStr)) \o e.phenomenon
    IN  IF text = "VCSHRA" THEN {"VCSHRA", "VCSH"} ELSE {text}

CloudSpellings(e) ==
    {e.type \o (IF e.height = NoneNum THEN "" ELSE Pad3(e.height[1]))
            \o Get(e, "convective", "")}

TemperatureSpellings(tag, e) ==
    {tag \o (IF e.value < 0 THEN "M" \o Pad2(0 - e.value) ELSE Pad2(e.value))
         \o "/" \o e.time \o "Z"}

QnhSpellings(e) == {"QNH" \o Pad4(e.value) \o "INS"}

ChangeSpellings(e) == {e.type}

WeatherInOrder(s, d) ==
    OccurInOrder(s, 0, [i \in 1..Len(Get(d, "weather", <<>>)) |-> WeatherSpellings(d.weather[i])])

CloudsInOrder(s, d) ==
    OccurInOrder(s, 0, [i \in 1..Len(Get(d, "clouds", <<>>)) |-> CloudSpellings(d.clouds[i])])

TemperaturesInOrder(s, d, k, tag) ==
    OccurInOrder(s, 0, [i \in 1..Len(Get(d, k, <<>>)) |-> TemperatureSpellings(tag, d[k][i])])

\* the text of the i-th surviving change span
GroupText(i) == Strip(Slice(ChangesText(TafBody), Survivors[i].start, Survivors[i].end))

\* C11 as stated: every list of a parsed report holds its entries in the order their
\* tokens stand in the source text: METAR weather and clouds, the weather and clouds of
\* the base forecast and of each change group (with VCSH and NSW among the tokens), the
\* change groups, the maximum and minimum temperatures, the QNH values.
C11_ListsInSourceOrder ==
    /\ (kind = "metar" /\ pc # "parse") =>
          /\ WeatherInOrder(arg.s, pres.value)
          /\ CloudsInOrder(arg.s, pres.value)
    /\ (kind = "taf" /\ pc # "parse") =>
          /\ WeatherInOrder(BaseText(TafBody), pres.value["base_forecast"])
          /\ CloudsInOrder(BaseText(TafBody), pres.value["base_forecast"])
          /\ Len(Changes) = Len(Survivors)
          /\ \A i \in 1..Len(Changes) :
                /\ WeatherInOrder(GroupText(i), Changes[i])
                /\ CloudsInOrder(GroupText(i), Changes[i])
          /\ OccurInOrder(TafBody, 0, [i \in 1..Len(Changes) |-> ChangeSpellings(Changes[i])])
          /\ TemperaturesInOrder(arg.s, Get(pres.value, "temperature_forecast", EmptyDict),
                                 "max_temperature", "TX")
          /\ TemperaturesInOrder(arg.s, Get(pres.value, "temperature_forecast", EmptyDict),
                                 "min_temperature", "TN")
          /\ OccurInOrder(arg.s, 0, [i \in 1..Len(Get(pres.value, "qnh_forecast", <<>>)) |->
                                        QnhSpellings(pres.value["qnh_forecast"][i])])

\* the offset of the earliest NOSIG, TEMPO, BECMG or RMK of s, or NoMatch
MarkerStart(s) ==
    Least({SearchWord(s, w) : w \in {"NOSIG", "TEMPO", "BECMG", "RMK"}} \ {NoMatch})

\* the text before the marker; all of the text when there is no marker
BeforeMarker(s) == IF MarkerStart(s) = NoMatch THEN s ELSE Slice(s, 0, MarkerStart(s))

WeatherOf(d) == Get(d, "weather", <<>>)
CloudsOf(d) == Get(d, "clouds", <<>>)

SameWeatherAndClouds(d, e) == WeatherOf(d) = WeatherOf(e) /\ CloudsOf(d) = CloudsOf(e)

C13_SlpBranching ==
    (kind = "metar" /\ pc # "parse") =>
        /\ Has(pres.value, "sea_level_pressure")
        /\ pres.value["sea_level_pressure"] =
              (IF arg.slp < 700 THEN 1000 + arg.slp ELSE arg.slp)

\* the two values at the threshold have been decoded, each by its branch
C13_Witness ==
    /\ kind = "metar" /\ pc = "done"
    /\ \/ arg.slp = 699 /\ pres.value["sea_level_pressure"] = 1699
       \/ arg.slp = 700 /\ pres.value["sea_level_pressure"] = 700

\* C14 as stated: a METAR whose remarks contain SLP134 decodes to sea-level pressure
\* 1013.4 and one whose remarks contain SLP876 to 987.6 (the stored pressure, in tenths,
\* is 10134 and 9876).
C14_SlpExamples ==
    (kind = "metar" /\ pc # "parse") =>
        /\ arg.slp = 134 => pres.value["sea_level_pressure"] * 10 = 10134
        /\ arg.slp = 876 => pres.value["sea_level_pressure"] * 10 = 9876

\* the report has exactly these fields of the observation
HasFields(d, station, direction, speed, from, to, visibility, cloud, height, temp, dewp, qnh) ==
    /\ d["station_id"] = station
    /\ d["wind"] = [direction |-> direction, speed |-> speed, gust |-> NoneNum,
                    variation |-> [from |-> from, to |-> to]]
    /\ d["visibility"] = visibility
    /\ d["clouds"] = <<[type |-> cloud, height |-> Num(height)]>>
    /\ d["temperature"] = temp /\ d["dewpoint"] = dewp
    /\ d["altimeter"] = [unit |-> "hPa", value |-> qnh]
    /\ ~Has(d, "weather") /\ ~Has(d, "parse_error")

\* C15: for a well-formed METAR <station> <DDHHMM>Z AUTO <wind> <dddVddd> <4-digit
\* visibility> <cloud> <TT/DD> <Qnnnn> each field of the report is the value of its own
\* token, whatever the other tokens are; 'EGLL 021420Z AUTO 35004KT 300V040 9999 SCT024
\* 12/06 Q1035' gives station EGLL, wind 350 at 4, variation 300 to 40, visibility
\* '9999 meters', the one layer SCT at 24, temperature 12, dewpoint 6, altimeter 1035 hPa.
C15_FieldsFromOwnTokens ==
    (kind = "metar" /\ pc # "parse") =>
        /\ HasFields(pres.value, arg.fields.station, arg.fields.direction,
                     ToInt(arg.fields.speed), ToInt(arg.fields.from), ToInt(arg.fields.to),
                     arg.fields.visibility \o " meters", arg.fields.cloud,
                     ToInt(arg.fields.height), ToSignedInt(arg.fields.temp),
                     ToSignedInt(arg.fields.dewp), ToInt(arg.fields.qnh))
        /\ arg.s = "EGLL 021420Z AUTO 35004KT 300V040 9999 SCT024 12/06 Q1035" =>
              HasFields(pres.value, "EGLL", "350", 4, 300, 40, "9999 meters", "SCT", 24,
                        12, 6, 1035)

\* the example of the claim has been parsed
C15_Witness ==
    /\ kind = "metar" /\ pc # "parse"
    /\ arg.s = "EGLL 021420Z AUTO 35004KT 300V040 9999 SCT024 12/06 Q1035"
    /\ pres.value["report_modifier"] = "AUTO"

\* d with the key when the token was written
PutWritten(d, k, token, v) == IF token = "" THEN d ELSE Put(d, k, v)

\* what the tokens of a block say: dddffKT, a 4-digit visibility, a weather token, a layer
WindSaid(t) == [direction |-> Slice(t, 0, 3), speed |-> ToInt(Slice(t, 3, 5)), gust |-> NoneNum]
WeatherSaid(t) ==
    IF t = "-SHRA" THEN <<[intensity |-> "-", descriptor |-> "SH", phenomenon |-> "RA"]>>
    ELSE <<[intensity |-> NoneStr, descriptor |-> NoneStr, phenomenon |-> t]>>
CloudSaid(t) == <<[type |-> Slice(t, 0, 3), height |-> Num(ToInt(Slice(t, 3, 6)))]>>

ConditionsSaid(d, wind, visibility, weather, cloud) ==
    PutWritten(PutWritten(PutWritten(PutWritten(d,
        "wind", wind, WindSaid(wind)),
        "visibility", visibility, visibility \o " meters"),
        "weather", weather, WeatherSaid(weather)),
        "clouds", cloud, CloudSaid(cloud))

BaseSaid(f) == ConditionsSaid([type |-> "BASE"], f.wind, f.visibility, f.weather, f.cloud)

TempoSaid(f) ==
    ConditionsSaid([type |-> "TEMPO", valid_from |-> Slice(f.period, 0, 4),
                    valid_to |-> Slice(f.period, 5, 9)],
                   f.tempo_wind, f.tempo_visibility, f.tempo_weather, f.tempo_cloud)

\* C16: for a TAF with a base block followed by one TEMPO group the base forecast holds
\* what the tokens before TEMPO say, and there is exactly one change group, of type
\* TEMPO, whose validity window, wind, visibility, weather and clouds are what the
\* tokens of the TEMPO group say and nothing of the base block; for 'EGLL 121100Z
\* 1212/1318 35010KT 9999 SCT025 TEMPO 1214/1218 4000 RA BKN012' the base has wind 350
\* at 10 and the group has 1214 to 1218, '4000 meters' and the one phenomenon RA.
C16_BaseAndOneTempo ==
    (kind = "taf" /\ pc # "parse") =>
        /\ pres.value["base_forecast"] = BaseSaid(arg.fields)
        /\ Changes = <<TempoSaid(arg.fields)>>
        /\ arg.s = "EGLL 121100Z 1212/1318 35010KT 9999 SCT025 TEMPO 1214/1218 4000 RA BKN012" =>
              /\ pres.value["base_forecast"]["wind"].direction = "350"
              /\ pres.value["base_forecast"]["wind"].speed = 10
              /\ Len(Changes) = 1
              /\ Changes[1].type = "TEMPO"
              /\ Changes[1].valid_from = "1214" /\ Changes[1].valid_to = "1218"
              /\ Changes[1].visibility = "4000 meters"
              /\ Changes[1].weather =
                    <<[intensity |-> NoneStr, descriptor |-> NoneStr, phenomenon |-> "RA"]>>

\* the example of the claim has been parsed
C16_Witness ==
    /\ kind = "taf" /\ pc # "parse"
    /\ arg.s = "EGLL 121100Z 1212/1318 35010KT 9999 SCT025 TEMPO 1214/1218 4000 RA BKN012"
    /\ Len(Changes) = 1

\* C17: in parse_metar (no CAVOK) a statute-mile visibility, whole or fractional, is
\* stored in full with ' (statute miles)', a 4-digit one with ' meters', and no digit of
\* the observation time or of the wind token is taken for it; the wind is that of the
\* wind token; 'KJFK 021451Z 14012G20KT 3/4SM' gives wind 140 at 12 gusting 20 and
\* visibility '3/4SM (statute miles)'.
C17_VisibilityInFull ==
    (kind = "metar" /\ pc # "parse") =>
        /\ pres.value["visibility"] =
              arg.fields.visibility
              \o (IF Contains(arg.fields.visibility, "SM") THEN " (statute miles)"
                  ELSE " meters")
        /\ pres.value["wind"] =
              [direction |-> arg.fields.wind.direction,
               speed |-> ToInt(arg.fields.wind.speed),
               gust |-> IF arg.fields.wind.gust = "" THEN NoneNum
                        ELSE Num(ToInt(arg.fields.wind.gust))]
        /\ arg.s = "KJFK 021451Z 14012G20KT 3/4SM" =>
              /\ pres.value["wind"] = [direction |-> "140", speed |-> 12, gust |-> Num(20)]
              /\ pres.value["visibility"] = "3/4SM (statute miles)"

\* the example of the claim has been parsed, and so has a mixed fraction
C17_Witness ==
    /\ kind = "metar" /\ pc # "parse"
    /\ \/ arg.s = "KJFK 021451Z 14012G20KT 3/4SM"
       \/ arg.fields.visibility = "1 1/2SM"
    /\ Has(pres.value, "visibility")

\* C18 as stated: in parse_metar the temperature and the dewpoint are those of the TT/DD
\* group, also when a runway visual range (Rnn/nnnn) stands before it.
C18_TemperatureFromItsGroup ==
    (kind = "metar" /\ pc # "parse") =>
        /\ pres.value["temperature"] = ToSignedInt(arg.fields.temp)
        /\ pres.value["dewpoint"] = ToSignedInt(arg.fields.dewp)

\* the entry a weather token stands for: an optional sign, an optional two-letter
\* descriptor, a two-letter phenomenon
EntryOf(t) ==
    LET sign == IF At(t, 0) \in {"-", "+"} THEN 1 ELSE 0
        code == Slice(t, sign, Len(t))
    IN  [intensity |-> IF sign = 1 THEN At(t, 0) ELSE NoneStr,
         descriptor |-> IF Len(code) = 4 THEN Slice(code, 0, 2) ELSE NoneStr,
         phenomenon |-> Slice(code, Len(code) - 2, Len(code))]

EntriesOf(t) == IF t = "" THEN <<>> ELSE <<EntryOf(t)>>

\* C19 as stated: every weather entry of a forecast group stands for a whole weather
\* token of that group's text, and tokens that are not weather tokens (the station
\* identifier of the base block, also one ending in SS or BR, keywords, flags) give no
\* entry: the weather of the base and of the change group are those of their tokens.
C19_WeatherFromWeatherTokens ==
    (kind = "taf" /\ pc # "parse") =>
        /\ WeatherOf(pres.value["base_forecast"]) = EntriesOf(arg.fields.weather)
        /\ \A i \in 1..Len(Changes) :
              WeatherOf(Changes[i]) = EntriesOf(arg.fields.change.weather)

\* a change indicator at offset p of s; the TEMPO of "PROB30 TEMPO" belongs to its PROB30
IndicatorAt(s, p) ==
    \/ WordAt(s, p, "BECMG") # NoMatch
    \/ WordAt(s, p, "PROB30") # NoMatch
    \/ WordAt(s, p, "PROB40") # NoMatch
    \/ /\ WordAt(s, p, "TEMPO") # NoMatch
       /\ ~(p >= 7 /\ (Lit(s, p - 7, "PROB30 ") \/ Lit(s, p - 7, "PROB40 ")))
    \/ /\ WordBoundary(s, p) /\ Lit(s, p, "FM") /\ DigitsAt(s, p + 2, 6)
       /\ WordBoundary(s, p + 8)

RECURSIVE InOrder(_)
InOrder(S) == IF S = {} THEN <<>> ELSE <<Least(S)>> \o InOrder(S \ {Least(S)})

\* the offsets of the change indicators of the forecast text, left to right
Indicators == InOrder({p \in 0..Len(TafBody) : IndicatorAt(TafBody, p)})

\* the text from the i-th indicator up to the next one, or to the end of the text
IndicatorText(i) ==
    Strip(Slice(TafBody, Indicators[i],
                IF i < Len(Indicators) THEN Indicators[i + 1] ELSE Len(TafBody)))

\* C20 as stated: every change indicator of the change region (PROB30 or PROB40 with a
\* TEMPO right after it counting as one) introduces exactly one surviving span, which
\* runs from the indicator up to the next indicator or the end of the text: there are
\* as many change groups as indicators, and the text of each group is the text from its
\* indicator to the next, also when an indicator is followed directly by another one or
\* by a bare validity window.
C20_OneSpanPerIndicator ==
    (kind = "taf" /\ pc # "parse") =>
        /\ Len(Changes) = Len(Indicators)
        /\ Len(Survivors) = Len(Indicators)
        /\ \A i \in 1..Len(Indicators) : GroupText(i) = IndicatorText(i)

ChangeKinds == {"TEMPO", "BECMG", "PROB30", "PROB40", "PROB30 TEMPO", "PROB40 TEMPO", "FM"}

\* the kind the leading keyword of a group text says
LeadingKind(g) ==
    IF Lit(g, 0, "FM") THEN "FM"
    ELSE IF Lit(g, 0, "BECMG") THEN "BECMG"
    ELSE IF Lit(g, 0, "TEMPO") THEN "TEMPO"
    ELSE IF Lit(g, 6, " TEMPO") THEN Slice(g, 0, 12)
    ELSE Slice(g, 0, 6)

\* the offset of the first DDHH/DDHH token of a group text, or NoMatch
WindowOf(g) ==
    Least({p \in 1..Len(g) : /\ At(g, p - 1) = " " /\ DigitsAt(g, p, 4) /\ At(g, p + 4) = "/"
                             /\ DigitsAt(g, p + 5, 4) /\ At(g, p + 9) \in {" ", ""}})

\* the validity fields of a group: the keys among valid_from, valid_to and their values
ValidityOf(d) == [k \in DOMAIN d \cap {"valid_from", "valid_to"} |-> d[k]]

\* what the text of a group of this kind says of its validity
ValiditySaid(g, k) ==
    IF k = "FM" THEN [valid_from |-> Slice(g, 2, 8)]
    ELSE IF WindowOf(g) = NoMatch THEN EmptyDict
    ELSE [valid_from |-> Slice(g, WindowOf(g), WindowOf(g) + 4),
          valid_to |-> Slice(g, WindowOf(g) + 5, WindowOf(g) + 9)]

\* the texts of the surviving change spans, in order
GroupTexts(changes, spans) ==
    [i \in 1..Len(spans) |-> Strip(Slice(changes, spans[i].start, spans[i].end))]

\* each group has the type and the validity its text says
KindsAsSaid(groups, texts) ==
    /\ Len(groups) = Len(texts)
    /\ \A i \in 1..Len(groups) :
          /\ groups[i].type \in ChangeKinds
          /\ groups[i].type = LeadingKind(texts[i])
          /\ ValidityOf(groups[i]) = ValiditySaid(texts[i], groups[i].type)

\* C21: every group of forecast_changes has one of the seven types, the one its leading
\* keyword says, and a validity window of its kind: a TEMPO, BECMG or PROB group has the
\* valid_from and valid_to of its own DDHH/DDHH token, an FM group has the valid_from of
\* its six-digit timestamp and no valid_to, the base forecast has neither.
C21_TypeAndValidityOfGroups ==
    (kind = "taf" /\ pc # "parse") =>
        /\ KindsAsSaid(Changes, GroupTexts(ChangesText(TafBody), Survivors))
        /\ ValidityOf(pres.value["base_forecast"]) = EmptyDict

\* a forecast with an FM group and, after it, a group with a validity window
C21_Witness ==
    /\ kind = "taf" /\ pc # "parse"
    /\ Len(Changes) = 2
    /\ Changes[1].type = "FM" /\ Changes[1].valid_from = "121400"
    /\ Changes[2].type = "TEMPO" /\ Changes[2].valid_to = "1218"

-----------------------------------------------------------------------------
(* C22: the visibility of a forecast is never taken from a time            *)

\* the forecast d holds the visibility written for it as v, and none when none was
\* written
VisibilitySaid(d, v) ==
    IF v = "" THEN ~Has(d, "visibility")
    ELSE Get(d, "visibility", NoneStr) = TafVisibilityText(v)

\* C22: in a decoded forecast the visibility of the base forecast and of a change group
\* is the visibility token written in it, and a forecast with no visibility token has no
\* visibility, whatever validity window, TX time, issue time, FM time or QNH token
\* stands in it
C22_VisibilityNotFromTimes ==
    (kind = "taf" /\ pc # "parse") =>
        /\ VisibilitySaid(pres.value["base_forecast"], arg.fields.visibility)
        /\ \A i \in 1..Len(Changes) :
              VisibilitySaid(Changes[i], arg.fields.change.visibility)

-----------------------------------------------------------------------------
(* C23: the weather symbol of the HTML forecast                            *)

\* the entries of a weather list with the thunderstorm or the freezing descriptor
Severe(weather) ==
    {i \in 1..Len(weather) : Get(weather[i], "descriptor", NoneStr) \in {"TS", "FZ"}}

\* the text has a weather line that opens with the symbol
WeatherLineWith(text, symbol) ==
    \E p \in 0..Len(text) : Lit(text, p, "Weather:</span> " \o symbol \o " ")

\* the text has a weather line that opens with the symbol of one of the entries
ShowsSymbolOf(text, weather, entries) ==
    \E i \in entries : WeatherLineWith(text, WeatherEmojiOf(weather[i]))

\* C23: the HTML rendering of a decoded forecast whose weather list has an entry with the
\* thunderstorm or the freezing descriptor shows the symbol of such an entry on its
\* weather line, wherever that entry stands in the list
C23_SevereSymbolFirst ==
    (kind = "taf" /\ pc = "done" /\ Severe(WeatherOf(pres.value["base_forecast"])) # {}) =>
        /\ fres.kind = "returned"
        /\ ShowsSymbolOf(fres.value, WeatherOf(pres.value["base_forecast"]),
                         Severe(WeatherOf(pres.value["base_forecast"])))

-----------------------------------------------------------------------------
(* C24: the wind variation joins the wind                                  *)

\* the wind record of a decoded observation, empty when it has none
WindOrNone(d) == Get(d, "wind", EmptyDict)

\* the variation record of the token dddVddd
VariationOf(t) == [from |-> ToInt(Slice(t, 0, 3)), to |-> ToInt(Slice(t, 4, 7))]

\* the wind record of the observation written from f without its variation token
WindWithoutVariation(f) ==
    WindOrNone(parse_metar(Str(VariationReport([f EXCEPT !.variation = ""])), 0).value)

\* the wind of d is the wind w with the variation of the token t added, w itself when
\* there is no token, and d has a wind exactly when there is a wind or a token
VariationJoins(d, w, t) ==
    /\ WindOrNone(d) = (IF t = "" THEN w ELSE Put(w, "variation", VariationOf(t)))
    /\ Has(d, "wind") <=> (w # EmptyDict \/ t # "")

\* the rendering names the variation of the token t and no formatting error
RendersVariation(text, t) ==
    /\ Contains(text, "(varying between " \o ToString(VariationOf(t).from))
    /\ ~Contains(text, "Formatting Error")

\* C24: in a decoded observation the wind record is the one the wind token alone gives,
\* direction, speed and gust unchanged, with the variation of the dddVddd token added;
\* without a wind token the wind record holds the variation only; and format_metar
\* returns a rendering of the report that names the variation unless the wind is calm
C24_VariationJoinsWind ==
    (kind = "metar" /\ pc # "parse") =>
        /\ VariationJoins(pres.value, WindWithoutVariation(arg.fields), arg.fields.variation)
        /\ (pc = "done" /\ arg.fields.variation # "") =>
              /\ fres.kind = "returned"
              /\ arg.fields.wind # "00000KT" =>
                    RendersVariation(fres.value, arg.fields.variation)

C24_Witness ==
    /\ kind = "metar" /\ pc = "done"
    /\ arg.fields.wind = "" /\ arg.fields.variation = "350V040"
    /\ pres.value["wind"] = [variation |-> [from |-> 350, to |-> 40]]
    /\ fres.kind = "returned"
    /\ Contains(fres.value, "Wind: N/A&#176; at 0 KT (varying between 350&#176; and 40&#176;)")

-----------------------------------------------------------------------------
(* C25: CAVOK counts in the observation only                               *)

\* the observation part of the report says CAVOK
CavokObserved(s) == SearchWord(BeforeMarker(s), "CAVOK") # NoMatch

\* the report d has the cavok flag or the visibility CAVOK
CavokStored(d) == Truthy(d, "cavok") \/ Get(d, "visibility", NoneStr) = "CAVOK"

\* C25: parse_metar sets the cavok flag and the visibility CAVOK only when CAVOK stands
\* in the observation, before the earliest NOSIG, TEMPO, BECMG or RMK; when CAVOK stands
\* in the trend or the remarks only, the visibility, the weather and the clouds are the
\* ones the observation gives when it is parsed alone
C25_CavokOfObservationOnly ==
    (kind = "metar" /\ pc # "parse" /\ ~CavokObserved(arg.s)) =>
        /\ ~CavokStored(pres.value)
        /\ SameWeatherAndClouds(pres.value, parse_metar(Str(BeforeMarker(arg.s)), 0).value)
        /\ Get(pres.value, "visibility", NoneStr)
              = Get(parse_metar(Str(BeforeMarker(arg.s)), 0).value, "visibility", NoneStr)

-----------------------------------------------------------------------------
(* C26: the flags of a decoded forecast                                    *)

TafFlagNames == {"is_amended", "is_corrected", "is_nil", "is_auto", "amd_not_sked"}

\* the five flags are present in d, each a boolean
FlagsPresent(d) == \A k \in TafFlagNames : Has(d, k) /\ d[k] \in BOOLEAN

\* C26: parse_taf of a non-empty string returns a report in which is_amended,
\* is_corrected, is_nil, is_auto and amd_not_sked are all present as booleans, and
\* amd_not_sked is true only when is_amended is true
C26_FlagsPresent ==
    (kind = "taf" /\ pc # "parse" /\ arg.s # "") =>
        /\ FlagsPresent(pres.value)
        /\ pres.value["amd_not_sked"] => pres.value["is_amended"]

C26_Witness ==
    /\ kind = "taf" /\ pc = "done" /\ arg.s = "KJFK 121100Z 1212/1318 9999 AMD NOT SKED"
    /\ pres.value["amd_not_sked"] /\ pres.value["is_amended"] /\ ~pres.value["is_corrected"]

-----------------------------------------------------------------------------
(* C27: the coordinator stores the renderings of the observation           *)

\* the record holds the decoded observation and its two renderings, and no format error
HoldsRenderings(record) ==
    /\ Has(record, "parsed_metar")
    /\ Has(record, "formatted_metar_text") /\ Has(record, "formatted_metar_html")
    /\ ~Has(record["parsed_metar"], "_format_error")

\* every record of coordinator.data with a non-empty rawOb holds the renderings
RecordsHoldRenderings(data) ==
    data.t = "dict" =>
        \A a \in DOMAIN data.d : NonEmptyStr(data.d[a], "rawOb") => HoldsRenderings(data.d[a])

\* the sensor state read last is a character count
ReadsCharCount ==
    /\ hass.read.value # "Format failed"
    /\ Len(hass.read.value) > 6
    /\ Slice(hass.read.value, Len(hass.read.value) - 6, Len(hass.read.value)) = " chars"

\* the sensor state read last is of an aerodrome whose stored record has a rawOb
ReadOfObservation ==
    /\ hass.read.kind = "read"
    /\ hass.data[hass.read.entry].data.t = "dict"
    /\ Has(hass.data[hass.read.entry].data.d, hass.read.aerodrome)
    /\ NonEmptyStr(hass.data[hass.read.entry].data.d[hass.read.aerodrome], "rawOb")

\* C27: every record the coordinator stored for an aerodrome with a non-empty rawOb holds
\* parsed_metar, formatted_metar_text and formatted_metar_html, its parsed_metar has no
\* _format_error flag, and the state of a formatted METAR sensor of such an aerodrome is
\* a character count, never "Format failed"
C27_RenderingsStored ==
    kind = "hass" =>
        /\ \A e \in DOMAIN hass.data : RecordsHoldRenderings(hass.data[e].data)
        /\ ReadOfObservation => ReadsCharCount

-----------------------------------------------------------------------------
(* C28: one failing aerodrome does not fail the update                     *)

\* the aerodromes whose request returned a record in the update u
WithData(u) == {a \in DOMAIN u.outcome : u.outcome[a] \notin Failures}

\* the update u requested every aerodrome of its coordinator, failed exactly when no
\* request returned a record, and else returned the records of exactly the aerodromes
\* whose request returned one
UpdateAsOutcomes(u, good) ==
    /\ u.fetched = Aerodromes(u.entry)
    /\ u.result.kind = "raised" <=> good = {}
    /\ u.result.kind = "returned" => DOMAIN u.result.value = good

\* C28: in every call of _async_update_data each configured aerodrome is requested, the
\* call raises UpdateFailed exactly when no aerodrome returned data, and otherwise its
\* result maps exactly the aerodromes that returned data, whatever happened to the others
C28_PartialFailure ==
    (kind = "hass" /\ hass.update.kind = "update") =>
        UpdateAsOutcomes(hass.update, WithData(hass.update))

C28_Witness ==
    /\ kind = "hass" /\ hass.update.kind = "update"
    /\ hass.update.outcome = [EGLL |-> "status", KJFK |-> "metar"]
    /\ hass.update.result.kind = "returned"
    /\ DOMAIN hass.update.result.value = {"KJFK"}
    /\ DOMAIN hass.data[EntryId(1)].data.d = {"KJFK"}

-----------------------------------------------------------------------------
(* C29: the refresh service is registered while an entry is loaded         *)

\* the service is registered exactly when an entry is loaded, and hass.data[DOMAIN] holds
\* the coordinators of exactly the loaded entries
RegisteredIffLoaded ==
    kind = "hass" =>
        /\ hass.service # NoEntry <=> hass.loaded # {}
        /\ DOMAIN hass.data = hass.loaded

\* a step that loads an entry registers the service; a step that removes the service is
\* an unload that leaves no entry loaded; a step that loads and unloads nothing, a failed
\* unload among them, changes neither the handler nor the coordinators stored
RegistrationSteps ==
    kind = "hass" =>
        /\ (hass'.loaded \ hass.loaded # {}) => hass'.service \in hass'.loaded \ hass.loaded
        /\ (hass.service # NoEntry /\ hass'.service = NoEntry) =>
              (hass.loaded # {} /\ hass'.loaded = {})
        /\ (hass'.loaded = hass.loaded) =>
              (hass'.service = hass.service /\ DOMAIN hass'.data = DOMAIN hass.data)

\* C29: the refresh service is registered exactly when at least one config entry is
\* loaded: every setup registers it, only the unload that leaves no loaded entry removes
\* it, and a failed unload changes neither the stored coordinators nor the registration
C29_ServiceWhileLoaded == [](RegisteredIffLoaded) /\ [][RegistrationSteps]_vars

C29_Witness ==
    /\ kind = "hass" /\ hass.loaded = {} /\ hass.service = NoEntry /\ hass.data = EmptyDict
    /\ hass.update.kind = "update" /\ hass.update.result.kind = "returned"

-----------------------------------------------------------------------------
(* C30: the refresh service refreshes a loaded entry                       *)

\* C30: a call of the refresh service requests the refresh of the coordinator of an entry
\* that is loaded at the time of the call, never of one that has been unloaded
C30_RefreshesLoadedEntry ==
    (kind = "hass" /\ hass.requested # NoEntry) => hass.requested \in hass.loaded

=============================================================================
